---- MODULE Spec2Model ----
(***************************************************************************)
(* Employee Cards (src/main.js): the directory / management resolvers, the *)
(* profile page, the form page with its archive builds, the slug           *)
(* derivation and the contact card, modelled as state machines.            *)
(*                                                                         *)
(* One behaviour is one page load.  The static host (one data.json per     *)
(* slug folder) is the fixed function Site; the directory index            *)
(* EMPLOYEE_SLUGS and the query string are chosen by Init.  A promise chain*)
(* fetchJson(url).then(A).catch(B) is one request in `requests`; its       *)
(* handlers A and B are the actions that touch the page state.             *)
(***************************************************************************)
EXTENDS Integers, Sequences, FiniteSets, TLC

\* ---------------------------------------------------------------------
\* Bounds and universes
\* ---------------------------------------------------------------------
\* longest directory index (EMPLOYEE_SLUGS) explored
MaxIndexLen == 3

\* the slugs an index or a query can name: three folders with a record, one
\* whose data.json is the JSON text null, one whose data.json does not parse,
\* and one that does not exist on the host
Slugs == {"ann", "bob", "cy", "nul", "bad", "gone"}

BASE_URL == "/employee-cards"

FULL_BASE_URL == "https://centerlink-technologies.github.io/employee-cards"

\* JSON null, the one parsed value on which a property read throws
JsonNull == [type |-> "null"]

\* an <img> of the bio markup: its src attribute and its title attribute
\* (<<>> when it has none)
Img(src, title) == [src |-> src, title |-> title]

\* image references of a stored bio: a bare file name of the slug folder, an
\* absolute address on another host, and a bare file name that begins with
\* the letters http
LocalImage == <<"b", "i", "o", "-image-1", ".", "png">>
ExternalImage == <<"h", "t", "t", "p", "s", ":", "/", "/", "cdn.example/x.png">>
HttpNamedImage == <<"h", "t", "t", "p", "-logo", ".", "png">>

\* the bio markup stored in the folders: ann's has a local and an external
\* image, bob's a local image named http-logo.png, any other one local image
StoredBio(folder) ==
  CASE folder = "ann" -> <<Img(LocalImage, <<>>), Img(ExternalImage, <<>>)>>
    [] folder = "bob" -> <<Img(HttpNamedImage, <<>>)>>
    [] OTHER -> <<Img(LocalImage, <<>>)>>

\* the media list stored in the folders
StoredMedia(folder) ==
  CASE folder = "ann" -> <<LocalImage>>
    [] folder = "bob" -> <<HttpNamedImage>>
    [] OTHER -> <<>>

\* a parsed data.json object; firstName tells the files of the folders apart,
\* slug is a text (a sequence of characters or longer pieces)
EmployeeData(folder, storedSlug) ==
  [type |-> "object", slug |-> storedSlug, firstName |-> <<folder>>,
   lastName |-> <<"Doe">>, title |-> <<"Engineer">>,
   email |-> <<folder, "@", "example.com">>, phone |-> <<>>,
   headshot |-> <<"headshot", ".", "jpg">>,
   bioHtml |-> StoredBio(folder), media |-> StoredMedia(folder)]

\* what the static host can hold at <BASE_URL>/<slug>/data.json
FileAbsent == [file |-> "absent"]
FileMalformed == [file |-> "malformed"]
FileJson(v) == [file |-> "json", value |-> v]

\* the static host: slug -> what <BASE_URL>/<slug>/data.json holds; the
\* record in folder cy was built for another name, its slug member is c-y
Site(s) ==
  CASE s = "gone" -> FileAbsent
    [] s = "bad" -> FileMalformed
    [] s = "nul" -> FileJson(JsonNull)
    [] s = "cy" -> FileJson(EmployeeData(s, <<"c-y">>))
    [] OTHER -> FileJson(EmployeeData(s, <<s>>))

\* BASE_URL + '/' + slug + '/data.json'
DataUrl(slug) == <<BASE_URL, "/", slug, "/data.json">>

\* mutant of Truthy: the filter keeps every assigned slot
TruthyAll(v) == TRUE

\* JavaScript truthiness of a parsed JSON value (objects are truthy)
Truthy(v) == v.type # "null"

VARIABLES
  page,            \* which page the DOMContentLoaded dispatcher initialises
  pc,              \* position of the page script
  EMPLOYEE_SLUGS,  \* the directory index (configuration)
  query,           \* the query string: <<>> or <<value of person>>
  requests,        \* fetchJson chains issued so far, in issue order
  loaded, failed, cards,   \* loadDirectory's locals
  mloaded, employees,      \* loadManageList's locals (loaded, employees)
  display,         \* element id -> style.display
  children,        \* records appended to directoryGrid / employeeList
  links,           \* the profile addresses the page carries: card links,
                   \* 'View Profile' links, QR code payloads
  errorMessage,    \* textContent of #errorMessage
  profile,         \* the record painted by renderProfile, <<>> if none
  rendered,        \* what renderProfile wrote into the profile page
  renderLog,       \* arguments of every renderDirectoryCards/renderManageList call
  console,         \* slugs reported through console.error
  overtaken,       \* history: a lookup settled while an earlier one was outstanding
  firstName, lastName,     \* the arguments of a generateSlug call
  generatedSlug,   \* <<the value generateSlug returned>>, <<>> before the call
  normalizedAgain, \* <<the slug normalization applied to generatedSlug>>
  employee,        \* the argument of a buildVcard call
  vcard,           \* <<the text buildVcard returned>>, <<>> before the call
  inputs,          \* form page: input id -> value, for the other text inputs
  headshotFiles,   \* form page: headshotInput.files, as file names
  bioEditor,       \* form page: bioEditor.innerHTML, as a sequence of nodes
  JSZipLoaded,     \* form page: typeof JSZip !== 'undefined'
  builds,          \* form page: the createEmployeeZip promises, in call order
  previewPanel,    \* form page: what showFormPreview last wrote, <<>> if nothing
  uncaught         \* exceptions no handler caught, in order

vars == <<page, pc, EMPLOYEE_SLUGS, query, requests, loaded, failed,
          cards, mloaded, employees, display, children, links, errorMessage,
          profile, rendered, renderLog, console, overtaken, firstName, lastName, generatedSlug,
          normalizedAgain, employee, vcard, inputs, headshotFiles, bioEditor,
          JSZipLoaded, builds, previewPanel, uncaught>>

\* the variables of the slug derivation
slugVars == <<firstName, lastName, generatedSlug, normalizedAgain>>

\* the variables of the contact card
vcardVars == <<employee, vcard>>

\* what the form page reads
formInputs == <<inputs, headshotFiles, bioEditor, JSZipLoaded>>

\* what the form page writes
formVars == <<builds, previewPanel>>

\* ---------------------------------------------------------------------
\* Helpers
\* ---------------------------------------------------------------------
\* all sequences over S of length at most n
RECURSIVE SeqsUpTo(_, _)
SeqsUpTo(S, n) ==
  IF n = 0 THEN {<<>>}
  ELSE LET shorter == SeqsUpTo(S, n - 1)
       IN shorter \cup {Append(q, x) : q \in {r \in shorter : Len(r) = n - 1}, x \in S}

\* arr.filter(function(c) { return c; }) on a sparse array of at most n slots:
\* visits the assigned indexes in ascending order and keeps the truthy values
RECURSIVE FilterTruthy(_, _)
FilterTruthy(arr, n) ==
  IF n = 0 THEN <<>>
  ELSE LET rest == FilterTruthy(arr, n - 1)
       IN IF n \in DOMAIN arr /\ Truthy(arr[n]) THEN Append(rest, arr[n]) ELSE rest

\* mutant of ArrayPut: arr.push(value), the slot is the completion rank
ArrayPush(arr, index, value) ==
  [i \in (DOMAIN arr) \cup {Cardinality(DOMAIN arr) + 1} |->
     IF i = Cardinality(DOMAIN arr) + 1 THEN value ELSE arr[i]]

\* mutant of ArrayPut: arr.unshift(value), every assigned slot moves up by one
ArrayUnshift(arr, index, value) ==
  [i \in {1} \cup {k + 1 : k \in DOMAIN arr} |->
     IF i = 1 THEN value ELSE arr[i - 1]]

\* arr[index] = value on a sparse array
ArrayPut(arr, index, value) == [i \in (DOMAIN arr) \cup {index} |->
                                  IF i = index THEN value ELSE arr[i]]

EmptyArray == [i \in {} |-> JsonNull]

\* the elements whose style.display the scripts write
Elements == {"loadingMessage", "directoryGrid", "emptyMessage",
             "employeeListContainer", "profileContainer", "errorContainer",
             "employeeForm", "preview"}

\* ---------------------------------------------------------------------
\* fetchJson
\* ---------------------------------------------------------------------
\* the ways fetchJson(DataUrl(slug)) can settle: fetch itself may reject
\* (transport), response.ok may be false, response.json() may reject, or the
\* parsed value is delivered
FetchJsonOutcomes(slug) ==
  {[ok |-> FALSE, reason |-> "transport"]} \cup
  (IF Site(slug).file = "absent" THEN {[ok |-> FALSE, reason |-> "status"]}
   ELSE IF Site(slug).file = "malformed" THEN {[ok |-> FALSE, reason |-> "syntax"]}
   ELSE {[ok |-> TRUE, value |-> Site(slug).value]})

Pending(i) == i \in DOMAIN requests /\ requests[i].status = "pending"

\* lookup i settles now: does it overtake a lookup issued before it?
Overtakes(i) == overtaken \/ \E j \in 1..(i - 1) : Pending(j)

Settled(i) == i \in DOMAIN requests /\ requests[i].status # "pending"

NewRequest(slug) == [slug |-> slug, url |-> DataUrl(slug), status |-> "pending"]

Resolve(i, v) == [requests EXCEPT ![i] = [slug |-> @.slug, url |-> @.url,
                                          status |-> "resolved", value |-> v]]

\* mutant of Reject: the failed lookup is issued once more
RejectAndRetry(i) ==
  Append([requests EXCEPT ![i] = [slug |-> @.slug, url |-> @.url,
                                  status |-> "rejected"]],
         NewRequest(requests[i].slug))

\* the handlers never read the rejection reason, so the chain keeps only its state
Reject(i) == [requests EXCEPT ![i] = [slug |-> @.slug, url |-> @.url,
                                      status |-> "rejected"]]

\* ---------------------------------------------------------------------
\* Profile address
\* ---------------------------------------------------------------------
\* mutant of buildProfileUrl: the address is relative to the site root
buildProfileUrlRelative(slug) ==
  <<BASE_URL, "/profile.html", "?", "person", "=">> \o slug

\* encodeURIComponent on one character: letters, digits and - _ . ! ~ * ' ( )
\* are kept, any other character becomes its percent-escape
EncodeChar(c) ==
  CASE c = " " -> <<"%20">>
    [] c = "&" -> <<"%26">>
    [] OTHER -> <<c>>

RECURSIVE encodeURIComponent(_)
encodeURIComponent(str) ==
  IF str = <<>> THEN <<>>
  ELSE EncodeChar(Head(str)) \o encodeURIComponent(Tail(str))

\* FULL_BASE_URL + '/profile.html?person=' + encodeURIComponent(slug)
buildProfileUrl(slug) ==
  <<FULL_BASE_URL, "/profile.html", "?", "person", "=">>
    \o encodeURIComponent(slug)

\* ---------------------------------------------------------------------
\* Contact card
\* ---------------------------------------------------------------------
\* an optional text is <<>> (null or undefined) or <<text>>; it is truthy when
\* it is a non-empty text
TruthyText(opt) == opt # <<>> /\ opt[1] # <<>>

CRLF == "\r\n"

\* Array.prototype.join
RECURSIVE Join(_, _)
Join(lines, sep) ==
  IF lines = <<>> THEN <<>>
  ELSE IF Len(lines) = 1 THEN lines[1]
  ELSE lines[1] \o <<sep>> \o Join(Tail(lines), sep)

\* the line 'TEL:' + employee.phone
TelLine(e) == <<"TEL:">> \o e.phone[1]

\* the lines pushed before the optional TEL line
VcardHead(e) ==
  << <<"BEGIN:VCARD">>,
     <<"VERSION:", "3.0">>,
     <<"FN:">> \o e.firstName \o <<" ">> \o e.lastName,
     <<"N:">> \o e.lastName \o <<";">> \o e.firstName \o <<";;;">>,
     <<"TITLE:">> \o e.title,
     <<"ORG:", "Centerlink Technologies">>,
     <<"EMAIL:">> \o e.email >>

\* the lines pushed after it
VcardTail(e) ==
  << <<"URL:">> \o buildProfileUrl(e.slug),
     <<"END:VCARD">> >>

\* mutant of buildVcard: the TEL line is pushed after the URL line
buildVcardTelAfterUrl(e) ==
  Join(VcardHead(e) \o <<VcardTail(e)[1]>>
         \o (IF TruthyText(e.phone) THEN <<TelLine(e)>> ELSE <<>>)
         \o <<VcardTail(e)[2]>>, CRLF)

buildVcard(e) ==
  Join(VcardHead(e)
         \o (IF TruthyText(e.phone) THEN <<TelLine(e)>> ELSE <<>>)
         \o VcardTail(e), CRLF)

\* non-empty single-line texts
Texts == {<<"J">>, <<"J", " ", "o">>}

\* a phone: null, the empty string, a number
Phones == {<<>>, << <<>> >>, << <<"5", "5", "5">> >>}

\* the records buildVcard is applied to
VcardEmployees ==
  [type : {"object"}, slug : {<<"j", "-", "o">>, <<"j", " ", "&">>},
   firstName : Texts, lastName : Texts, title : Texts, email : Texts,
   phone : Phones]

\* a call buildVcard(employee)
BuildVcardCall ==
  /\ page = "vcard"
  /\ vcard = <<>>
  /\ vcard' = <<buildVcard(employee)>>
  /\ UNCHANGED <<page, pc, EMPLOYEE_SLUGS, query, requests, loaded, failed,
                 cards, mloaded, employees, display, children, links, errorMessage,
                 profile, rendered, renderLog, console, overtaken, slugVars, employee,
                 formInputs, formVars, uncaught>>

\* ---------------------------------------------------------------------
\* Directory page
\* ---------------------------------------------------------------------
showDirectoryEmpty(d) ==
  [d EXCEPT !["loadingMessage"] = "none",
            !["directoryGrid"] = "none",
            !["emptyMessage"] = "block"]

\* employee.slug: a parsed value without that member reads as undefined,
\* which concatenation and encodeURIComponent turn into the text 'undefined'
SlugOf(emp) ==
  IF "slug" \in DOMAIN emp THEN emp.slug ELSE <<"undefined">>

\* createEmployeeCard(employee): the link the card is, with the slug of the
\* record it was made for
createEmployeeCard(emp) ==
  [href |-> buildProfileUrl(SlugOf(emp)), slug |-> SlugOf(emp)]

\* renderDirectoryCards: the cards appended to the grid
DirectoryCards(list) == [i \in 1..Len(list) |-> createEmployeeCard(list[i])]

\* mutant of renderDirectoryCards: the grid is shown for an empty list too
renderDirectoryCardsAlwaysGrid(d, list) ==
  [d EXCEPT !["loadingMessage"] = "none",
            !["directoryGrid"] = "grid",
            !["emptyMessage"] = "none"]

\* display after renderDirectoryCards(list)
renderDirectoryCards(d, list) ==
  IF Len(list) = 0
  THEN showDirectoryEmpty([d EXCEPT !["loadingMessage"] = "none"])
  ELSE [d EXCEPT !["loadingMessage"] = "none",
                 !["directoryGrid"] = "grid",
                 !["emptyMessage"] = "none"]

\* mutant of DirectoryMaybeRender: renders after every completion
DirectoryRenderEach(newLoaded, newFailed, newCards) ==
  LET list == FilterTruthy(newCards, Len(EMPLOYEE_SLUGS))
  IN /\ renderLog' = Append(renderLog, list)
     /\ display' = renderDirectoryCards(display, list)
     /\ children' = IF Len(list) = 0 THEN children ELSE list
     /\ links' = IF Len(list) = 0 THEN links ELSE DirectoryCards(list)

\* mutant of DirectoryMaybeRender: completion counts the successes only
DirectoryRenderWhenAllLoaded(newLoaded, newFailed, newCards) ==
  IF newLoaded = Len(EMPLOYEE_SLUGS)
  THEN LET list == FilterTruthy(newCards, Len(EMPLOYEE_SLUGS))
       IN /\ renderLog' = Append(renderLog, list)
          /\ display' = renderDirectoryCards(display, list)
          /\ children' = IF Len(list) = 0 THEN children ELSE list
          /\ links' = IF Len(list) = 0 THEN links ELSE DirectoryCards(list)
  ELSE UNCHANGED <<renderLog, display, children, links>>

\* mutant of DirectoryDone: the failures are not counted
DirectoryDoneLoadedOnly(newLoaded, newFailed) ==
  newLoaded = Len(EMPLOYEE_SLUGS)

\* loaded + failed === EMPLOYEE_SLUGS.length
DirectoryDone(newLoaded, newFailed) ==
  newLoaded + newFailed = Len(EMPLOYEE_SLUGS)

\* the shared tail of both handlers of loadDirectory
DirectoryMaybeRender(newLoaded, newFailed, newCards) ==
  IF DirectoryDone(newLoaded, newFailed)
  THEN LET list == FilterTruthy(newCards, Len(EMPLOYEE_SLUGS))
       IN /\ renderLog' = Append(renderLog, list)
          /\ display' = renderDirectoryCards(display, list)
          /\ children' = IF Len(list) = 0 THEN children ELSE list
          /\ links' = IF Len(list) = 0 THEN links ELSE DirectoryCards(list)
  ELSE UNCHANGED <<renderLog, display, children, links>>

\* mutant of loadDirectory: no early return for an empty index
loadDirectoryNoEmptyCheck ==
  /\ UNCHANGED <<overtaken, slugVars, vcardVars, formInputs, formVars, uncaught>>
  /\ page = "directory"
  /\ pc = "start"
  /\ pc' = "running"
  /\ display' = [display EXCEPT !["loadingMessage"] = "block",
                                !["directoryGrid"] = "none",
                                !["emptyMessage"] = "none"]
  /\ requests' = [i \in 1..Len(EMPLOYEE_SLUGS) |-> NewRequest(EMPLOYEE_SLUGS[i])]
  /\ UNCHANGED <<page, EMPLOYEE_SLUGS, query, loaded, failed, cards,
                 mloaded, employees, children, links, errorMessage, profile, rendered,
                 renderLog, console>>

loadDirectory ==
  /\ UNCHANGED <<overtaken, slugVars, vcardVars, formInputs, formVars, uncaught>>
  /\ page = "directory"
  /\ pc = "start"
  /\ pc' = "running"
  /\ IF Len(EMPLOYEE_SLUGS) = 0
     THEN /\ display' = showDirectoryEmpty(display)
          /\ UNCHANGED requests
     ELSE /\ display' = [display EXCEPT !["loadingMessage"] = "block",
                                        !["directoryGrid"] = "none",
                                        !["emptyMessage"] = "none"]
          /\ requests' = [i \in 1..Len(EMPLOYEE_SLUGS) |-> NewRequest(EMPLOYEE_SLUGS[i])]
  /\ UNCHANGED <<page, EMPLOYEE_SLUGS, query, loaded, failed, cards,
                 mloaded, employees, children, links, errorMessage, profile, rendered,
                 renderLog, console>>

\* .then(function(employeeData) {...}) of lookup number i
DirectoryThen(i) ==
  /\ overtaken' = Overtakes(i)
  /\ UNCHANGED <<slugVars, vcardVars, formInputs, formVars, uncaught>>
  /\ page = "directory"
  /\ Pending(i)
  /\ \E o \in FetchJsonOutcomes(requests[i].slug) :
       /\ o.ok
       /\ requests' = Resolve(i, o.value)
       /\ cards' = ArrayPut(cards, i, o.value)
       /\ loaded' = loaded + 1
       /\ DirectoryMaybeRender(loaded + 1, failed, ArrayPut(cards, i, o.value))
  /\ UNCHANGED <<page, pc, EMPLOYEE_SLUGS, query, failed, mloaded,
                 employees, errorMessage, profile, rendered, console>>

\* .catch(function(error) {...}) of lookup number i
DirectoryCatch(i) ==
  /\ overtaken' = Overtakes(i)
  /\ UNCHANGED <<slugVars, vcardVars, formInputs, formVars, uncaught>>
  /\ page = "directory"
  /\ Pending(i)
  /\ \E o \in FetchJsonOutcomes(requests[i].slug) :
       /\ ~o.ok
       /\ requests' = Reject(i)
  /\ console' = console \cup {requests[i].slug}
  /\ failed' = failed + 1
  /\ DirectoryMaybeRender(loaded, failed + 1, cards)
  /\ UNCHANGED <<page, pc, EMPLOYEE_SLUGS, query, loaded, cards, mloaded,
                 employees, errorMessage, profile, rendered>>

\* ---------------------------------------------------------------------
\* Management page
\* ---------------------------------------------------------------------
showManageEmpty(d) ==
  [d EXCEPT !["loadingMessage"] = "none",
            !["employeeListContainer"] = "none",
            !["emptyMessage"] = "block"]

\* createManageItem(employee): the 'View Profile' link of the item, with the
\* slug of the record it was made for
createManageItem(emp) ==
  [href |-> buildProfileUrl(SlugOf(emp)), slug |-> SlugOf(emp)]

\* renderManageList: the items appended to the list
ManageItems(list) == [i \in 1..Len(list) |-> createManageItem(list[i])]

\* display after renderManageList(list)
renderManageList(d, list) ==
  IF Len(list) = 0
  THEN showManageEmpty([d EXCEPT !["loadingMessage"] = "none"])
  ELSE [d EXCEPT !["loadingMessage"] = "none",
                 !["employeeListContainer"] = "block",
                 !["emptyMessage"] = "none"]

\* loaded === EMPLOYEE_SLUGS.length
ManageDone(newLoaded) == newLoaded = Len(EMPLOYEE_SLUGS)

\* the shared tail of both handlers of loadManageList
ManageMaybeRender(newLoaded, newEmployees) ==
  IF ManageDone(newLoaded)
  THEN LET list == FilterTruthy(newEmployees, Len(EMPLOYEE_SLUGS))
       IN /\ renderLog' = Append(renderLog, list)
          /\ display' = renderManageList(display, list)
          /\ children' = IF Len(list) = 0 THEN children ELSE list
          /\ links' = IF Len(list) = 0 THEN links ELSE ManageItems(list)
  ELSE UNCHANGED <<renderLog, display, children, links>>

loadManageList ==
  /\ UNCHANGED <<overtaken, slugVars, vcardVars, formInputs, formVars, uncaught>>
  /\ page = "manage"
  /\ pc = "start"
  /\ pc' = "running"
  /\ IF Len(EMPLOYEE_SLUGS) = 0
     THEN /\ display' = showManageEmpty(display)
          /\ UNCHANGED requests
     ELSE /\ display' = [display EXCEPT !["loadingMessage"] = "block",
                                        !["employeeListContainer"] = "none",
                                        !["emptyMessage"] = "none"]
          /\ requests' = [i \in 1..Len(EMPLOYEE_SLUGS) |-> NewRequest(EMPLOYEE_SLUGS[i])]
  /\ UNCHANGED <<page, EMPLOYEE_SLUGS, query, loaded, failed, cards,
                 mloaded, employees, children, links, errorMessage, profile, rendered,
                 renderLog, console>>

\* .then(function(employeeData) {...}) of lookup number i
ManageThen(i) ==
  /\ overtaken' = Overtakes(i)
  /\ UNCHANGED <<slugVars, vcardVars, formInputs, formVars, uncaught>>
  /\ page = "manage"
  /\ Pending(i)
  /\ \E o \in FetchJsonOutcomes(requests[i].slug) :
       /\ o.ok
       /\ requests' = Resolve(i, o.value)
       /\ employees' = ArrayPut(employees, i, o.value)
       /\ mloaded' = mloaded + 1
       /\ ManageMaybeRender(mloaded + 1, ArrayPut(employees, i, o.value))
  /\ UNCHANGED <<page, pc, EMPLOYEE_SLUGS, query, loaded, failed, cards,
                 errorMessage, profile, rendered, console>>

\* .catch(function(error) {...}) of lookup number i
ManageCatch(i) ==
  /\ overtaken' = Overtakes(i)
  /\ UNCHANGED <<slugVars, vcardVars, formInputs, formVars, uncaught>>
  /\ page = "manage"
  /\ Pending(i)
  /\ \E o \in FetchJsonOutcomes(requests[i].slug) :
       /\ ~o.ok
       /\ requests' = Reject(i)
  /\ console' = console \cup {requests[i].slug}
  /\ mloaded' = mloaded + 1
  /\ ManageMaybeRender(mloaded + 1, employees)
  /\ UNCHANGED <<page, pc, EMPLOYEE_SLUGS, query, loaded, failed, cards,
                 employees, errorMessage, profile, rendered>>

\* ---------------------------------------------------------------------
\* The two resolvers side by side
\* ---------------------------------------------------------------------
\* loadDirectory and loadManageList run on the same index and are fed the
\* same lookup outcomes in the same completion order: lookup i of the one and
\* lookup i of the other settle in one step.  Only the resolvers' locals and
\* the lists they hand to their renderers are followed; renderLog holds who
\* rendered what.
DirectoryHandsOver(newLoaded, newFailed, newCards) ==
  IF DirectoryDone(newLoaded, newFailed)
  THEN <<[by |-> "renderDirectoryCards",
          list |-> FilterTruthy(newCards, Len(EMPLOYEE_SLUGS))]>>
  ELSE <<>>

ManageHandsOver(newLoaded, newEmployees) ==
  IF ManageDone(newLoaded)
  THEN <<[by |-> "renderManageList",
          list |-> FilterTruthy(newEmployees, Len(EMPLOYEE_SLUGS))]>>
  ELSE <<>>

\* both resolvers start: nothing is fetched for an empty index
ResolversLoad ==
  /\ page = "both"
  /\ pc = "start"
  /\ pc' = "running"
  /\ requests' = [i \in 1..Len(EMPLOYEE_SLUGS) |-> NewRequest(EMPLOYEE_SLUGS[i])]
  /\ UNCHANGED <<page, EMPLOYEE_SLUGS, query, loaded, failed, cards, mloaded,
                 employees, display, children, links, errorMessage, profile,
                 rendered, renderLog, console, overtaken, slugVars, vcardVars,
                 formInputs, formVars, uncaught>>

\* lookup i delivers a value to the then-handlers of both resolvers
ResolversThen(i) ==
  /\ page = "both"
  /\ Pending(i)
  /\ overtaken' = Overtakes(i)
  /\ \E o \in FetchJsonOutcomes(requests[i].slug) :
       /\ o.ok
       /\ requests' = Resolve(i, o.value)
       /\ cards' = ArrayPut(cards, i, o.value)
       /\ loaded' = loaded + 1
       /\ employees' = ArrayPut(employees, i, o.value)
       /\ mloaded' = mloaded + 1
       /\ renderLog' = renderLog
            \o DirectoryHandsOver(loaded + 1, failed, ArrayPut(cards, i, o.value))
            \o ManageHandsOver(mloaded + 1, ArrayPut(employees, i, o.value))
  /\ UNCHANGED <<page, pc, EMPLOYEE_SLUGS, query, failed, display, children,
                 links, errorMessage, profile, rendered, console, slugVars,
                 vcardVars, formInputs, formVars, uncaught>>

\* lookup i fails for the catch-handlers of both resolvers
ResolversCatch(i) ==
  /\ page = "both"
  /\ Pending(i)
  /\ overtaken' = Overtakes(i)
  /\ \E o \in FetchJsonOutcomes(requests[i].slug) :
       /\ ~o.ok
       /\ requests' = Reject(i)
  /\ console' = console \cup {requests[i].slug}
  /\ failed' = failed + 1
  /\ mloaded' = mloaded + 1
  /\ renderLog' = renderLog
       \o DirectoryHandsOver(loaded, failed + 1, cards)
       \o ManageHandsOver(mloaded + 1, employees)
  /\ UNCHANGED <<page, pc, EMPLOYEE_SLUGS, query, loaded, cards, employees,
                 display, children, links, errorMessage, profile, rendered,
                 slugVars, vcardVars, formInputs, formVars, uncaught>>

\* ---------------------------------------------------------------------
\* Profile page
\* ---------------------------------------------------------------------
\* new URLSearchParams(window.location.search).get(param): <<>> is null
getQueryParam(param) == IF param = "person" THEN query ELSE <<>>

\* !person: null and the empty string are falsy
Falsy(p) == p = <<>> \/ p = <<"">>

MsgNoEmployee == <<"No employee specified. Use ?person={slug}">>

\* 'Employee not found: ' + slug
MsgNotFound(slug) == <<"Employee not found: ", slug>>

\* mutant of showProfileError: the profile container is left as it is
showProfileErrorKeepsContainer(d) ==
  [d EXCEPT !["loadingMessage"] = "none",
            !["errorContainer"] = "block"]

showProfileError(d) ==
  [d EXCEPT !["loadingMessage"] = "none",
            !["profileContainer"] = "none",
            !["errorContainer"] = "block"]

\* mutant of initProfilePage: the return after the error is missing, so
\* loadProfile(null) runs and fetches <BASE_URL>/null/data.json
initProfilePageNoReturn ==
  /\ UNCHANGED <<overtaken, slugVars, vcardVars, formInputs, formVars, uncaught>>
  /\ page = "profile"
  /\ pc = "start"
  /\ LET person == getQueryParam("person")
     IN /\ display' = [display EXCEPT !["loadingMessage"] = "block",
                                      !["profileContainer"] = "none",
                                      !["errorContainer"] =
                                         IF Falsy(person) THEN "block" ELSE @]
        /\ requests' = <<NewRequest(IF person = <<>> THEN "null" ELSE person[1])>>
        /\ pc' = "running"
        /\ errorMessage' = IF Falsy(person) THEN MsgNoEmployee ELSE errorMessage
  /\ UNCHANGED <<page, EMPLOYEE_SLUGS, query, loaded, failed, cards,
                 mloaded, employees, children, links, profile, rendered, renderLog, console>>

\* mutant of initProfilePage: a slug outside EMPLOYEE_SLUGS is refused
\* without a fetch
initProfilePageIndexed ==
  /\ UNCHANGED <<overtaken, slugVars, vcardVars, formInputs, formVars, uncaught>>
  /\ page = "profile"
  /\ pc = "start"
  /\ LET person == getQueryParam("person")
     IN IF Falsy(person)
        THEN /\ display' = showProfileError(display)
             /\ errorMessage' = MsgNoEmployee
             /\ pc' = "done"
             /\ UNCHANGED requests
        ELSE IF \A i \in 1..Len(EMPLOYEE_SLUGS) : EMPLOYEE_SLUGS[i] # person[1]
        THEN /\ display' = showProfileError(display)
             /\ errorMessage' = MsgNotFound(person[1])
             /\ pc' = "done"
             /\ UNCHANGED requests
        ELSE /\ display' = [display EXCEPT !["loadingMessage"] = "block",
                                           !["profileContainer"] = "none"]
             /\ requests' = <<NewRequest(person[1])>>
             /\ pc' = "running"
             /\ UNCHANGED errorMessage
  /\ UNCHANGED <<page, EMPLOYEE_SLUGS, query, loaded, failed, cards,
                 mloaded, employees, children, links, profile, rendered, renderLog, console>>

\* initProfilePage, with loadProfile up to the fetchJson call
initProfilePage ==
  /\ UNCHANGED <<overtaken, slugVars, vcardVars, formInputs, formVars, uncaught>>
  /\ page = "profile"
  /\ pc = "start"
  /\ LET person == getQueryParam("person")
     IN IF Falsy(person)
        THEN /\ display' = showProfileError(display)
             /\ errorMessage' = MsgNoEmployee
             /\ pc' = "done"
             /\ UNCHANGED requests
        ELSE /\ display' = [display EXCEPT !["loadingMessage"] = "block",
                                           !["profileContainer"] = "none"]
             /\ requests' = <<NewRequest(person[1])>>
             /\ pc' = "running"
             /\ UNCHANGED errorMessage
  /\ UNCHANGED <<page, EMPLOYEE_SLUGS, query, loaded, failed, cards,
                 mloaded, employees, children, links, profile, rendered, renderLog, console>>

\* BASE_URL + '/' + employee.slug + '/' + name
FolderAddress(slug, name) == <<BASE_URL, "/">> \o slug \o <<"/">> \o name

\* String.prototype.startsWith
StartsWith(str, prefix) ==
  Len(str) >= Len(prefix) /\ SubSeq(str, 1, Len(prefix)) = prefix

\* if (src && !src.startsWith('http')) img.src = BASE_URL + '/' +
\* employee.slug + '/' + src
RewriteSrc(emp, src) ==
  IF src # <<>> /\ ~StartsWith(src, <<"h", "t", "t", "p">>)
  THEN FolderAddress(emp.slug, src)
  ELSE src

\* renderProfile: the addresses it writes into the page, the headshot, the
\* images of the bio and the images of the media gallery; nothing has been
\* downloaded yet
renderProfile(emp) ==
  [headshot |-> FolderAddress(emp.slug, emp.headshot),
   bio |-> [i \in 1..Len(emp.bioHtml) |->
              [emp.bioHtml[i] EXCEPT !.src = RewriteSrc(emp, @)]],
   gallery |-> [i \in 1..Len(emp.media) |->
                  FolderAddress(emp.slug, emp.media[i])],
   downloads |-> <<>>]

\* .then(function(employeeData) { renderProfile(employeeData); }): renderProfile
\* shows the container first and then reads employee.slug, which throws a
\* TypeError on null; the promise returned by then() is then rejected
\* renderProfile: the two QR codes, new QRCode(container, { text: profileUrl,
\* width, height }), the inline one and the larger one of the modal
QRCodes(emp) ==
  << [text |-> buildProfileUrl(emp.slug), width |-> 200, slug |-> emp.slug],
     [text |-> buildProfileUrl(emp.slug), width |-> 350, slug |-> emp.slug] >>

ProfileThen ==
  /\ UNCHANGED <<overtaken, slugVars, vcardVars, formInputs, formVars, uncaught>>
  /\ page = "profile"
  /\ Pending(1)
  /\ \E o \in FetchJsonOutcomes(requests[1].slug) :
       /\ o.ok
       /\ display' = [display EXCEPT !["loadingMessage"] = "none",
                                     !["profileContainer"] = "block"]
       /\ IF o.value.type = "null"
          THEN /\ requests' = [requests EXCEPT ![1] =
                                 [slug |-> @.slug, url |-> @.url,
                                  status |-> "threw"]]
               /\ UNCHANGED <<profile, rendered, links>>
          ELSE /\ requests' = Resolve(1, o.value)
               /\ profile' = <<o.value>>
               /\ rendered' = <<renderProfile(o.value)>>
               /\ links' = QRCodes(o.value)
  /\ pc' = IF requests'[1].status = "threw" THEN pc ELSE "done"
  /\ UNCHANGED <<page, EMPLOYEE_SLUGS, query, loaded, failed, cards,
                 mloaded, employees, children, errorMessage, renderLog, console>>

\* the click listener of downloadVcardBtn: downloadBlob(new Blob([vcard]),
\* employee.slug + '.vcf'), once
downloadVcardBtnClick ==
  /\ page = "profile"
  /\ profile # <<>>
  /\ rendered[1].downloads = <<>>
  /\ rendered' = <<[rendered[1] EXCEPT !.downloads =
                      <<[filename |-> profile[1].slug \o <<".vcf">>,
                         text |-> buildVcard(profile[1])]>>]>>
  /\ UNCHANGED <<page, pc, EMPLOYEE_SLUGS, query, requests, loaded, failed,
                 cards, mloaded, employees, display, children, links,
                 errorMessage, profile, renderLog, console, overtaken,
                 slugVars, vcardVars, formInputs, formVars, uncaught>>

\* mutant of ProfileCatch: a record file that does not parse gets its own message
ProfileCatchByCause ==
  /\ UNCHANGED <<overtaken, slugVars, vcardVars, formInputs, formVars, uncaught>>
  /\ page = "profile"
  /\ \/ /\ Pending(1)
        /\ \E o \in FetchJsonOutcomes(requests[1].slug) :
             /\ ~o.ok
             /\ requests' = Reject(1)
             /\ errorMessage' = IF o.reason = "syntax"
                                THEN <<"Employee record is malformed: ", requests[1].slug>>
                                ELSE MsgNotFound(requests[1].slug)
     \/ /\ 1 \in DOMAIN requests
        /\ requests[1].status = "threw"
        /\ requests' = Reject(1)
        /\ errorMessage' = MsgNotFound(requests[1].slug)
  /\ display' = showProfileError(display)
  /\ pc' = "done"
  /\ UNCHANGED <<page, EMPLOYEE_SLUGS, query, loaded, failed, cards,
                 mloaded, employees, children, links, profile, rendered, renderLog, console>>

\* .catch(function(error) { showProfileError('Employee not found: ' + slug); })
\* runs when fetchJson rejected or when the then-handler threw
ProfileCatch ==
  /\ UNCHANGED <<overtaken, slugVars, vcardVars, formInputs, formVars, uncaught>>
  /\ page = "profile"
  /\ \/ /\ Pending(1)
        /\ \E o \in FetchJsonOutcomes(requests[1].slug) :
             /\ ~o.ok
             /\ requests' = Reject(1)
     \/ /\ 1 \in DOMAIN requests
        /\ requests[1].status = "threw"
        /\ requests' = Reject(1)
  /\ display' = showProfileError(display)
  /\ errorMessage' = MsgNotFound(requests[1].slug)
  /\ pc' = "done"
  /\ UNCHANGED <<page, EMPLOYEE_SLUGS, query, loaded, failed, cards,
                 mloaded, employees, children, links, profile, rendered, renderLog, console>>

\* ---------------------------------------------------------------------
\* Slug derivation
\* ---------------------------------------------------------------------
\* longest first or last name explored
MaxNameLen == 3

\* a string is a sequence of characters; these stand for an upper-case letter,
\* a lower-case letter, white space and the hyphen
Chars == {"J", "o", " ", "-"}

IsSpace(c) == c = " "

LowerChar(c) == IF c = "J" THEN "j" ELSE c

\* String.prototype.toLowerCase
ToLowerCase(str) == [i \in 1..Len(str) |-> LowerChar(str[i])]

RECURSIVE TrimStart(_)
TrimStart(str) ==
  IF str # <<>> /\ IsSpace(Head(str)) THEN TrimStart(Tail(str)) ELSE str

RECURSIVE TrimEnd(_)
TrimEnd(str) ==
  IF str # <<>> /\ IsSpace(str[Len(str)])
  THEN TrimEnd(SubSeq(str, 1, Len(str) - 1))
  ELSE str

\* String.prototype.trim
Trim(str) == TrimEnd(TrimStart(str))

\* str.replace(/\s+/g, '-'): every maximal run of white space becomes one hyphen
RECURSIVE ReplaceSpaceRuns(_)
ReplaceSpaceRuns(str) ==
  IF str = <<>> THEN <<>>
  ELSE IF IsSpace(Head(str))
       THEN <<"-">> \o ReplaceSpaceRuns(TrimStart(Tail(str)))
       ELSE <<Head(str)>> \o ReplaceSpaceRuns(Tail(str))

\* mutant of generateSlug: the concatenation is not lower-cased
generateSlugKeepsCase(first, last) ==
  ReplaceSpaceRuns(Trim(first \o <<"-">> \o last))

generateSlug(first, last) ==
  ReplaceSpaceRuns(Trim(ToLowerCase(first \o <<"-">> \o last)))

\* a call generateSlug(firstName, lastName)
GenerateSlugCall ==
  /\ page = "slug"
  /\ generatedSlug = <<>>
  /\ generatedSlug' = <<generateSlug(firstName, lastName)>>
  /\ UNCHANGED <<page, pc, EMPLOYEE_SLUGS, query, requests, loaded, failed,
                 cards, mloaded, employees, display, children, links, errorMessage,
                 profile, rendered, renderLog, console, overtaken, firstName, lastName,
                 normalizedAgain, vcardVars, formInputs, formVars, uncaught>>

\* the normalization of line 838 on its own: lower-case, trim, white-space
\* runs to one hyphen
SlugNormalization(str) == ReplaceSpaceRuns(Trim(ToLowerCase(str)))

\* the normalization applied once more, to the slug generateSlug returned
NormalizeAgain ==
  /\ page = "slug"
  /\ generatedSlug # <<>>
  /\ normalizedAgain = <<>>
  /\ normalizedAgain' = <<SlugNormalization(generatedSlug[1])>>
  /\ UNCHANGED <<page, pc, EMPLOYEE_SLUGS, query, requests, loaded, failed,
                 cards, mloaded, employees, display, children, links, errorMessage,
                 profile, rendered, renderLog, console, overtaken, firstName, lastName,
                 generatedSlug, vcardVars, formInputs, formVars, uncaught>>

\* ---------------------------------------------------------------------
\* Form page: embedded bio images
\* ---------------------------------------------------------------------
\* most nodes in the bio editor
MaxBioNodes == 2

\* most submissions of one filled form
MaxBuilds == 2

\* the position of the last "." of a file name, 0 if it has none
LastDot(name) ==
  IF \E i \in 1..Len(name) : name[i] = "."
  THEN CHOOSE i \in 1..Len(name) :
         name[i] = "." /\ \A j \in (i + 1)..Len(name) : name[j] # "."
  ELSE 0

\* parts.length > 1 ? '.' + parts[parts.length - 1] : ''
getFileExtension(filename) ==
  IF LastDot(filename) = 0 THEN <<>>
  ELSE SubSeq(filename, LastDot(filename), Len(filename))


\* the images a bio can hold: an uploaded inline image, a pasted one without a
\* title, an uploaded one whose file name has no extension; an image at an
\* external address; an inline image whose data URL is not base64-encoded
BioNodes ==
  {Img(<<"data:", "image/png", ";", "base64", ",", "AAAA">>, <<"a", ".", "b", ".", "png">>),
   Img(<<"data:", "image/gif", ";", "base64", ",", "BBBB">>, <<>>),
   Img(<<"data:", "image/png", ";", "base64", ",", "AAAA">>, <<"scan">>),
   Img(<<"https:", "//cdn.example/x.png">>, <<"x", ".", "png">>),
   Img(<<"data:", "image/svg+xml", ",", "<svg/>">>, <<>>)}

\* String.prototype.startsWith('data:')
StartsWithData(src) == src # <<>> /\ src[1] = "data:"

\* dataUrl.split(','): the header arr[0] and what follows the first comma
CommaAt(dataUrl) ==
  IF \E i \in 1..Len(dataUrl) : dataUrl[i] = ","
  THEN CHOOSE i \in 1..Len(dataUrl) :
         dataUrl[i] = "," /\ \A j \in 1..(i - 1) : dataUrl[j] # ","
  ELSE Len(dataUrl) + 1

DataUrlHeader(dataUrl) == SubSeq(dataUrl, 1, CommaAt(dataUrl) - 1)

\* arr[0].match(/:(.*?);/) is null when no ";" follows the scheme's colon
HeaderMatches(dataUrl) ==
  \E i \in 2..Len(DataUrlHeader(dataUrl)) : DataUrlHeader(dataUrl)[i] = ";"

\* atob accepts base64 text only
Base64Payloads == {"AAAA", "BBBB"}

\* dataUrlToFile throws a TypeError when the header does not match (null[1]),
\* and atob throws when the payload is missing or is not base64
DataUrlToFileThrows(dataUrl) ==
  \/ ~HeaderMatches(dataUrl)
  \/ CommaAt(dataUrl) + 1 > Len(dataUrl)
  \/ dataUrl[CommaAt(dataUrl) + 1] \notin Base64Payloads

\* new File([u8arr], filename, { type: mime })
dataUrlToFile(dataUrl, filename) ==
  [name |-> filename,
   type |-> DataUrlHeader(dataUrl)[2],
   bytes |-> dataUrl[CommaAt(dataUrl) + 1]]

\* img.title || 'image.gif'
TitleOrDefault(img) ==
  IF img.title # <<>> THEN img.title ELSE <<"image", ".", "gif">>

\* the inline images of the markup, in document order, each with its file
RECURSIVE extractMediaFromBio(_)
extractMediaFromBio(bioHtml) ==
  IF bioHtml = <<>> THEN <<>>
  ELSE (IF StartsWithData(Head(bioHtml).src)
        THEN <<[src |-> Head(bioHtml).src,
                file |-> dataUrlToFile(Head(bioHtml).src,
                                       TitleOrDefault(Head(bioHtml)))]>>
        ELSE <<>>)
       \o extractMediaFromBio(Tail(bioHtml))

\* extractMediaFromBio throws when dataUrlToFile throws for one of the images
ExtractThrows(bioHtml) ==
  \E i \in 1..Len(bioHtml) :
    StartsWithData(bioHtml[i].src) /\ DataUrlToFileThrows(bioHtml[i].src)

\* 'bio-image-' + (index + 1) + getFileExtension(img.file.name || '.gif'),
\* index counted from 0
BioImageFilename(index, img) ==
  <<"bio-image-", ToString(index + 1)>>
    \o getFileExtension(IF img.file.name # <<>> THEN img.file.name
                        ELSE <<".", "gif">>)

\* mutant of ReplaceFirst: every occurrence is replaced
ReplaceEvery(bioHtml, src, filename) ==
  [i \in 1..Len(bioHtml) |->
     IF bioHtml[i].src = src THEN [bioHtml[i] EXCEPT !.src = filename]
     ELSE bioHtml[i]]

\* String.prototype.replace(src, filename): the first occurrence of the
\* address in the markup is replaced
ReplaceFirst(bioHtml, src, filename) ==
  [i \in 1..Len(bioHtml) |->
     IF bioHtml[i].src = src /\ \A j \in 1..(i - 1) : bioHtml[j].src # src
     THEN [bioHtml[i] EXCEPT !.src = filename]
     ELSE bioHtml[i]]

\* the media array after the forEach over the first n extracted images
RECURSIVE MediaAfter(_, _)
MediaAfter(bioImages, n) ==
  IF n = 0 THEN <<>>
  ELSE Append(MediaAfter(bioImages, n - 1),
              [filename |-> BioImageFilename(n - 1, bioImages[n]),
               file |-> bioImages[n].file])

\* bioHtmlWithLocalPaths after the forEach over the first n extracted images
RECURSIVE BioHtmlAfter(_, _, _)
BioHtmlAfter(bioHtml, bioImages, n) ==
  IF n = 0 THEN bioHtml
  ELSE ReplaceFirst(BioHtmlAfter(bioHtml, bioImages, n - 1),
                    bioImages[n].src,
                    BioImageFilename(n - 1, bioImages[n]))

\* ---------------------------------------------------------------------
\* Form page: the archive
\* ---------------------------------------------------------------------
\* the members of employeeData, in the order the object literal lists them
EmployeeKeys == <<"slug", "firstName", "lastName", "title", "department",
                  "email", "phone", "linkedin", "headshot", "bioHtml", "media">>

\* JSON.stringify(employeeData, null, 2): the members, in order
JSONstringify(e) ==
  [i \in 1..Len(EmployeeKeys) |->
     [key |-> EmployeeKeys[i], value |-> e[EmployeeKeys[i]]]]

\* a JSZip object is the sequence of its entries; folder(name) adds the
\* directory entry name/
ZipFolder(entries, name) ==
  Append(entries, [path |-> name \o <<"/">>, dir |-> TRUE, content |-> <<>>])

\* folder.file(name, content): a file entry folder/name; a name the folder
\* already holds is replaced
ZipFile(entries, folder, name, content) ==
  IF \E i \in 1..Len(entries) : entries[i].path = folder \o <<"/">> \o name
  THEN [i \in 1..Len(entries) |->
          IF entries[i].path = folder \o <<"/">> \o name
          THEN [entries[i] EXCEPT !.content = content]
          ELSE entries[i]]
  ELSE Append(entries, [path |-> folder \o <<"/">> \o name, dir |-> FALSE,
                        content |-> content])

\* the JSZip object after the first n media files were added
RECURSIVE ZipWithMedia(_, _, _, _)
ZipWithMedia(entries, slug, mediaFiles, n) ==
  IF n = 0 THEN entries
  ELSE ZipFile(ZipWithMedia(entries, slug, mediaFiles, n - 1), slug,
               mediaFiles[n].filename, mediaFiles[n].file)

\* mutant of NewZip: one JSZip object is shared by every call
SharedZip == IF builds = <<>> THEN <<>> ELSE builds[Len(builds)].zip

\* new JSZip(): an archive without entries
NewZip == <<>>

\* mutant of createEmployeeZip: the media files are not added
createEmployeeZipWithoutMedia(slug, employeeData, text, headshotFile, mediaFiles) ==
  ZipFile(
    ZipFile(
      ZipFile(ZipFolder(NewZip, slug), slug, <<"data.json">>,
              JSONstringify(employeeData)),
      slug, <<"contact.vcf">>, text),
    slug, employeeData.headshot, headshotFile)

\* the JSZip object createEmployeeZip hands to generateAsync
createEmployeeZip(slug, employeeData, text, headshotFile, mediaFiles) ==
  ZipWithMedia(
    ZipFile(
      ZipFile(
        ZipFile(ZipFolder(NewZip, slug), slug, <<"data.json">>,
                JSONstringify(employeeData)),
        slug, <<"contact.vcf">>, text),
      slug, employeeData.headshot, headshotFile),
    slug, mediaFiles, Len(mediaFiles))

\* ---------------------------------------------------------------------
\* Form page: submission
\* ---------------------------------------------------------------------
MsgZipLibrary ==
  <<"Error: ZIP library is not loaded. Please ensure jszip.min.js is properly loaded.">>

MsgRequired == <<"Please fill in all required fields, including a bio.">>

MsgHeadshot == <<"Please upload a headshot image.">>

MsgZipError(message) == <<"Error creating ZIP: ", message>>

\* the text inputs other than firstName and lastName
InputIds == {"email", "phone", "title", "department", "linkedin"}

\* document.getElementById(id).value.trim()
FormValue(id) ==
  Trim(IF id = "firstName" THEN firstName
       ELSE IF id = "lastName" THEN lastName
       ELSE inputs[id])

\* mutant of OrNull: the trimmed value is stored as it is
OrNullKeepsEmpty(text) == <<text>>

\* text || null
OrNull(text) == IF text # <<>> THEN <<text>> ELSE <<>>

\* mutant of MissingRequired: only the names and the bio are required
MissingRequiredNamesOnly ==
  \/ \E id \in {"firstName", "lastName"} : FormValue(id) = <<>>
  \/ bioEditor = <<>>

\* !firstName || !lastName || !email || !title || !department || !bioHtml
MissingRequired ==
  \/ \E id \in {"firstName", "lastName", "email", "title", "department"} :
       FormValue(id) = <<>>
  \/ bioEditor = <<>>

\* headshotInput.files[0]
HeadshotFile == [name |-> headshotFiles[1], type |-> "image", bytes |-> "HHHH"]

\* the media array handleFormSubmit hands to createEmployeeZip
SubmittedMedia ==
  MediaAfter(extractMediaFromBio(bioEditor),
             Len(extractMediaFromBio(bioEditor)))

\* the employeeData object handleFormSubmit builds from the form
SubmittedEmployeeData ==
  [type |-> "object",
   slug |-> generateSlug(FormValue("firstName"), FormValue("lastName")),
   firstName |-> FormValue("firstName"),
   lastName |-> FormValue("lastName"),
   title |-> FormValue("title"),
   department |-> FormValue("department"),
   email |-> FormValue("email"),
   phone |-> OrNull(FormValue("phone")),
   linkedin |-> OrNull(FormValue("linkedin")),
   headshot |-> <<"headshot">> \o getFileExtension(HeadshotFile.name),
   bioHtml |-> BioHtmlAfter(bioEditor, extractMediaFromBio(bioEditor),
                            Len(extractMediaFromBio(bioEditor))),
   media |-> [i \in 1..Len(SubmittedMedia) |-> SubmittedMedia[i].filename]]

\* the promise chain of one createEmployeeZip call, with the values its
\* handlers close over; form is history, what the form held at the call
NewBuild ==
  [slug |-> SubmittedEmployeeData.slug,
   bioHtml |-> bioEditor,
   employeeData |-> SubmittedEmployeeData,
   vcard |-> buildVcard(SubmittedEmployeeData),
   profileUrl |-> buildProfileUrl(SubmittedEmployeeData.slug),
   headshotFile |-> HeadshotFile,
   media |-> SubmittedMedia,
   zip |-> createEmployeeZip(SubmittedEmployeeData.slug, SubmittedEmployeeData,
                             buildVcard(SubmittedEmployeeData), HeadshotFile,
                             SubmittedMedia),
   status |-> "pending",
   reason |-> <<>>,
   form |-> [firstName |-> firstName, lastName |-> lastName,
             inputs |-> inputs, headshotFiles |-> headshotFiles,
             bioEditor |-> bioEditor]]

\* the messages of the errors generateAsync can reject with
PackerErrors == {"unreadable blob", "out of memory"}

\* showError(message)
showError(d) == [d EXCEPT !["errorContainer"] = "block"]

\* hideError()
hideError(d) == [d EXCEPT !["errorContainer"] = "none"]

\* initFormPage: the preview starts hidden, the listeners are attached
initFormPage ==
  /\ page = "form"
  /\ pc = "start"
  /\ pc' = "ready"
  /\ display' = [display EXCEPT !["preview"] = "none"]
  /\ UNCHANGED <<page, EMPLOYEE_SLUGS, query, requests, loaded, failed, cards,
                 mloaded, employees, children, links, errorMessage, profile, rendered,
                 renderLog, console, overtaken, slugVars, vcardVars,
                 formInputs, formVars, uncaught>>

\* the submit listener: handleFormSubmit, up to the createEmployeeZip call
handleFormSubmit ==
  /\ page = "form"
  /\ pc = "ready"
  /\ display["employeeForm"] # "none"
  /\ Len(builds) + Len(uncaught) < MaxBuilds
  /\ IF ~JSZipLoaded
     THEN /\ display' = showError(hideError(display))
          /\ errorMessage' = MsgZipLibrary
          /\ console' = console \cup {"JSZip is not defined"}
          /\ UNCHANGED <<builds, uncaught>>
     ELSE IF MissingRequired
     THEN /\ display' = showError(hideError(display))
          /\ errorMessage' = MsgRequired
          /\ UNCHANGED <<builds, uncaught, console>>
     ELSE IF headshotFiles = <<>>
     THEN /\ display' = showError(hideError(display))
          /\ errorMessage' = MsgHeadshot
          /\ UNCHANGED <<builds, uncaught, console>>
     ELSE IF ExtractThrows(bioEditor)
     THEN /\ display' = hideError(display)
          /\ uncaught' = Append(uncaught, "dataUrlToFile")
          /\ UNCHANGED <<builds, errorMessage, console>>
     ELSE /\ display' = hideError(display)
          /\ builds' = Append(builds, NewBuild)
          /\ UNCHANGED <<uncaught, errorMessage, console>>
  /\ UNCHANGED <<page, pc, EMPLOYEE_SLUGS, query, requests, loaded, failed,
                 cards, mloaded, employees, children, links, profile, rendered, renderLog,
                 overtaken, slugVars, vcardVars, formInputs, previewPanel>>

\* the text of the list items of #zipContents
ZipContentsItems(b) ==
  << b.slug \o <<"/", "data.json">>,
     b.slug \o <<"/", "contact.vcf">>,
     b.slug \o <<"/">> \o b.employeeData.headshot >>
  \o [i \in 1..Len(b.media) |-> b.slug \o <<"/">> \o b.media[i].filename]

\* mutant of showFormPreview: the download control keeps the listener it
\* was given first
showFormPreviewKeepsDownload(b) ==
  [profileUrl |-> b.profileUrl,
   vcardPreview |-> b.vcard,
   zipContents |-> ZipContentsItems(b),
   successMessage |-> b.slug,
   download |-> IF previewPanel # <<>> THEN previewPanel[1].download
                ELSE [blob |-> b.zip,
                      filename |-> b.slug \o <<"-employee-card.zip">>]]

\* showFormPreview: what it writes into the preview panel
showFormPreview(b) ==
  [profileUrl |-> b.profileUrl,
   vcardPreview |-> b.vcard,
   zipContents |-> ZipContentsItems(b),
   successMessage |-> b.slug,
   download |-> [blob |-> b.zip,
                 filename |-> b.slug \o <<"-employee-card.zip">>]]

\* generateAsync fulfilled: the then-handler of build i shows the preview
FormThen(i) ==
  /\ page = "form"
  /\ i \in DOMAIN builds
  /\ builds[i].status = "pending"
  /\ builds' = [builds EXCEPT ![i].status = "fulfilled"]
  /\ display' = [display EXCEPT !["employeeForm"] = "none",
                                !["preview"] = "block"]
  /\ previewPanel' = <<showFormPreview(builds[i])>>
  /\ UNCHANGED <<page, pc, EMPLOYEE_SLUGS, query, requests, loaded, failed,
                 cards, mloaded, employees, children, links, errorMessage, profile, rendered,
                 renderLog, console, overtaken, slugVars, vcardVars,
                 formInputs, uncaught>>

\* mutant of FormCatch: a failed build shows the preview as well
FormCatchShowsPreview(i) ==
  /\ page = "form"
  /\ i \in DOMAIN builds
  /\ builds[i].status = "pending"
  /\ \E cause \in PackerErrors :
       /\ builds' = [builds EXCEPT ![i].status = "rejected",
                                   ![i].reason = <<cause>>]
       /\ errorMessage' = MsgZipError(cause)
  /\ display' = [showError(display) EXCEPT !["preview"] = "block"]
  /\ previewPanel' = <<showFormPreview(builds[i])>>
  /\ console' = console \cup {"ZIP creation error:"}
  /\ UNCHANGED <<page, pc, EMPLOYEE_SLUGS, query, requests, loaded, failed,
                 cards, mloaded, employees, children, links, profile, rendered, renderLog,
                 overtaken, slugVars, vcardVars, formInputs, uncaught>>

\* generateAsync rejected: the catch-handler of build i shows the cause
FormCatch(i) ==
  /\ page = "form"
  /\ i \in DOMAIN builds
  /\ builds[i].status = "pending"
  /\ \E cause \in PackerErrors :
       /\ builds' = [builds EXCEPT ![i].status = "rejected",
                                   ![i].reason = <<cause>>]
       /\ errorMessage' = MsgZipError(cause)
  /\ display' = showError(display)
  /\ console' = console \cup {"ZIP creation error:"}
  /\ UNCHANGED <<page, pc, EMPLOYEE_SLUGS, query, requests, loaded, failed,
                 cards, mloaded, employees, children, links, profile, rendered, renderLog,
                 overtaken, slugVars, vcardVars, formInputs, previewPanel,
                 uncaught>>

\* what the user changes the form to while a build is under way: other
\* names, other optional inputs, another headshot file, a bio with another
\* uploaded image
EditedForm ==
  [firstName |-> <<"o">>, lastName |-> <<"o", "o">>,
   inputs |-> [id \in InputIds |->
                 IF id = "phone" THEN <<>>
                 ELSE IF id = "linkedin" THEN <<"5">>
                 ELSE <<"o">>],
   headshotFiles |-> << <<"you", ".", "png">> >>,
   bioEditor |-> <<Img(<<"data:", "image/png", ";", "base64", ",", "BBBB">>,
                       <<"c", ".", "png">>)>>]

\* the user edits the form between two submissions (the form stays visible
\* and editable until a build succeeds; what it holds before the first
\* submission is chosen by the initial state)
EditForm ==
  /\ page = "form"
  /\ pc = "ready"
  /\ display["employeeForm"] # "none"
  /\ builds # <<>>
  /\ firstName # EditedForm.firstName
  /\ firstName' = EditedForm.firstName
  /\ lastName' = EditedForm.lastName
  /\ inputs' = EditedForm.inputs
  /\ headshotFiles' = EditedForm.headshotFiles
  /\ bioEditor' = EditedForm.bioEditor
  /\ UNCHANGED <<page, pc, EMPLOYEE_SLUGS, query, requests, loaded, failed,
                 cards, mloaded, employees, display, children, links,
                 errorMessage, profile, rendered, renderLog, console, overtaken,
                 generatedSlug, normalizedAgain, vcardVars, JSZipLoaded,
                 formVars, uncaught>>

\* the click listener of newEmployeeBtn, the control of the success preview:
\* form.reset(), the bio editor emptied, the preview and the error hidden
newEmployeeBtnClick ==
  /\ page = "form"
  /\ pc = "ready"
  /\ display["preview"] = "block"
  /\ firstName' = <<>>
  /\ lastName' = <<>>
  /\ inputs' = [id \in InputIds |-> <<>>]
  /\ headshotFiles' = <<>>
  /\ bioEditor' = <<>>
  /\ display' = hideError([display EXCEPT !["preview"] = "none"])
  /\ UNCHANGED <<page, pc, EMPLOYEE_SLUGS, query, requests, loaded, failed,
                 cards, mloaded, employees, children, links, errorMessage,
                 profile, rendered, renderLog, console, overtaken, generatedSlug,
                 normalizedAgain, vcardVars, JSZipLoaded, formVars, uncaught>>

\* ---------------------------------------------------------------------
\* Specification
\* ---------------------------------------------------------------------
\* the person parameter: missing, empty, or any slug
Queries == {<<>>, <<"">>} \cup {<<s>> : s \in Slugs}

\* the state of a page before its script has run
Fresh ==
  /\ pc = "start"
  /\ requests = <<>>
  /\ loaded = 0
  /\ failed = 0
  /\ cards = EmptyArray
  /\ mloaded = 0
  /\ employees = EmptyArray
  /\ display = [e \in Elements |-> "html"]
  /\ children = <<>>
  /\ links = <<>>
  /\ errorMessage = <<>>
  /\ profile = <<>>
  /\ rendered = <<>>
  /\ renderLog = <<>>
  /\ console = {}
  /\ overtaken = FALSE
  /\ generatedSlug = <<>>
  /\ normalizedAgain = <<>>
  /\ vcard = <<>>
  /\ builds = <<>>
  /\ previewPanel = <<>>
  /\ uncaught = <<>>

\* a page without the form: its inputs do not exist
NoForm ==
  /\ inputs = <<>>
  /\ headshotFiles = <<>>
  /\ bioEditor = <<>>
  /\ JSZipLoaded = FALSE

Init ==
  /\ page \in {"directory", "manage", "profile"}
  /\ EMPLOYEE_SLUGS \in SeqsUpTo(Slugs, MaxIndexLen)
  /\ query \in (IF page = "profile" THEN Queries ELSE {<<>>})
  /\ firstName = <<>>
  /\ lastName = <<>>
  /\ employee = JsonNull
  /\ NoForm
  /\ Fresh

Next ==
  \/ loadDirectory
  \/ \E i \in 1..MaxIndexLen : DirectoryThen(i)
  \/ \E i \in 1..MaxIndexLen : DirectoryCatch(i)
  \/ loadManageList
  \/ \E i \in 1..MaxIndexLen : ManageThen(i)
  \/ \E i \in 1..MaxIndexLen : ManageCatch(i)
  \/ initProfilePage
  \/ ProfileThen
  \/ ProfileCatch
  \/ downloadVcardBtnClick

Spec == Init /\ [][Next]_vars

\* The page script runs, every issued lookup eventually settles and every
\* queued handler runs.  Each step settles one more lookup, so weak fairness
\* of Next is exactly that assumption.
FairSpec == Spec /\ WF_vars(Next)

\* generateSlug applied to every pair of names over Chars
SlugInit ==
  /\ page = "slug"
  /\ EMPLOYEE_SLUGS = <<>>
  /\ query = <<>>
  /\ firstName \in SeqsUpTo(Chars, MaxNameLen)
  /\ lastName \in SeqsUpTo(Chars, MaxNameLen)
  /\ employee = JsonNull
  /\ NoForm
  /\ Fresh

SlugNext ==
  \/ GenerateSlugCall
  \/ NormalizeAgain

SlugSpec == SlugInit /\ [][SlugNext]_vars

\* buildVcard applied to every record of VcardEmployees
VcardInit ==
  /\ page = "vcard"
  /\ EMPLOYEE_SLUGS = <<>>
  /\ query = <<>>
  /\ firstName = <<>>
  /\ lastName = <<>>
  /\ employee \in VcardEmployees
  /\ NoForm
  /\ Fresh

VcardNext == BuildVcardCall

VcardSpec == VcardInit /\ [][VcardNext]_vars

\* the text inputs that must not be empty
RequiredIds == {"firstName", "lastName", "email", "title", "department"}

\* a required input left empty: no text at all, or white space only
BlankValues == {<<>>, <<" ">>}

\* a required input filled in, with white space around or inside the text
FilledValue(id) ==
  CASE id = "firstName" -> <<" ", "J", "&">>
    [] id = "lastName" -> <<"o", " ", "J", " ">>
    [] OTHER -> <<" ", "J", "o", " ">>

\* how the required inputs are filled: all of them, or all but one, which is
\* left blank
RequiredFills ==
  {[id \in RequiredIds |-> FilledValue(id)]}
  \cup {[id \in RequiredIds |-> IF id = b THEN v ELSE FilledValue(id)] :
          b \in RequiredIds, v \in BlankValues}

\* an optional text input: empty, blank, filled in
OptionalValues == {<<>>, <<" ">>, <<" ", "5">>}

\* the files of the headshot input: none, or one file
HeadshotChoices == {<<>>, << <<"me", ".", "face", ".", "jpg">> >>, << <<"me">> >>}

\* a bio of one pasted image
OneImageBio ==
  <<Img(<<"data:", "image/gif", ";", "base64", ",", "BBBB">>, <<>>)>>

\* the required inputs all filled in
AllFilled == [id \in RequiredIds |-> FilledValue(id)]

\* a filled-in form: the required and the optional inputs, the headshot
\* input, the bio editor, and whether the page loaded the zip library
Form(fill, phone, linkedin, headshot, bio, zipLoaded) ==
  [fill |-> fill, phone |-> phone, linkedin |-> linkedin,
   headshot |-> headshot, bio |-> bio, JSZipLoaded |-> zipLoaded]

\* the forms submitted: every way of failing the checks made before
\* packaging, with a bio of at most one image; every pair of optional
\* inputs on a form that passes them; every bio on a form that passes them
Forms ==
  {Form(f, <<" ", "5">>, <<>>, h, b, z) :
     f \in RequiredFills, h \in HeadshotChoices,
     b \in SeqsUpTo(BioNodes, 1), z \in BOOLEAN}
  \cup {Form(AllFilled, ph, li, h, OneImageBio, TRUE) :
          ph \in OptionalValues, li \in OptionalValues,
          h \in HeadshotChoices \ {<<>>}}
  \cup {Form(AllFilled, <<" ", "5">>, <<>>, h, b, TRUE) :
          h \in HeadshotChoices \ {<<>>},
          b \in SeqsUpTo(BioNodes, MaxBioNodes)}

\* the form page, opened with a filled-in form
FormInit ==
  /\ page = "form"
  /\ EMPLOYEE_SLUGS = <<>>
  /\ query = <<>>
  /\ \E f \in Forms :
       /\ firstName = f.fill["firstName"]
       /\ lastName = f.fill["lastName"]
       /\ inputs = [id \in InputIds |->
                      IF id = "phone" THEN f.phone
                      ELSE IF id = "linkedin" THEN f.linkedin
                      ELSE f.fill[id]]
       /\ headshotFiles = f.headshot
       /\ bioEditor = f.bio
       /\ JSZipLoaded = f.JSZipLoaded
  /\ employee = JsonNull
  /\ Fresh

FormNext ==
  \/ initFormPage
  \/ handleFormSubmit
  \/ \E i \in 1..MaxBuilds : FormThen(i)
  \/ \E i \in 1..MaxBuilds : FormCatch(i)
  \/ EditForm
  \/ newEmployeeBtnClick

FormSpec == FormInit /\ [][FormNext]_vars

\* the two resolvers side by side, on every index
ResolversInit ==
  /\ page = "both"
  /\ EMPLOYEE_SLUGS \in SeqsUpTo(Slugs, MaxIndexLen)
  /\ query = <<>>
  /\ firstName = <<>>
  /\ lastName = <<>>
  /\ employee = JsonNull
  /\ NoForm
  /\ Fresh

ResolversNext ==
  \/ ResolversLoad
  \/ \E i \in 1..MaxIndexLen : ResolversThen(i)
  \/ \E i \in 1..MaxIndexLen : ResolversCatch(i)

ResolversSpec == ResolversInit /\ [][ResolversNext]_vars

\* the site: any of its four pages, opened in any of its initial states
SiteInit == Init \/ FormInit

SiteNext == Next \/ FormNext

SiteSpec == SiteInit /\ [][SiteNext]_vars

\* ---------------------------------------------------------------------
\* Vocabulary of the properties
\* ---------------------------------------------------------------------
IndexLen == Len(EMPLOYEE_SLUGS)

IndexedSlugs == {EMPLOYEE_SLUGS[i] : i \in 1..IndexLen}

ListPage == page \in {"directory", "manage"}

\* the slots of the page's result array (cards / employees)
Slots == IF page = "manage" THEN employees ELSE cards

\* lookup i delivered a usable record (a parsed object)
Succeeded(i) ==
  /\ i \in DOMAIN requests
  /\ requests[i].status = "resolved"
  /\ requests[i].value.type = "object"

\* the records of the lookups 1..n that succeeded, in index order
RECURSIVE ResolvedRecords(_)
ResolvedRecords(n) ==
  IF n = 0 THEN <<>>
  ELSE IF Succeeded(n) THEN Append(ResolvedRecords(n - 1), requests[n].value)
       ELSE ResolvedRecords(n - 1)

\* list[1..k] can be matched, in order, to succeeded lookups among 1..n
RECURSIVE InIndexOrder(_, _, _)
InIndexOrder(list, k, n) ==
  IF k = 0 THEN TRUE
  ELSE IF n = 0 THEN FALSE
  ELSE \/ /\ Succeeded(n)
          /\ requests[n].value = list[k]
          /\ InIndexOrder(list, k - 1, n - 1)
       \/ InIndexOrder(list, k, n - 1)

AllSettled == \A i \in 1..IndexLen : Settled(i)

SomePending == \E i \in 1..IndexLen : Pending(i)

\* ---------------------------------------------------------------------
\* C1..C9
\* ---------------------------------------------------------------------
\* C1: whatever order the lookups complete in, every list handed to the
\* renderer is a subsequence of the succeeded records taken in the index order
\* of EMPLOYEE_SLUGS: no record stands before a record of a smaller index.
C1_OrderPreserved ==
  ListPage =>
    \A k \in 1..Len(renderLog) :
      InIndexOrder(renderLog[k], Len(renderLog[k]), IndexLen)

\* three distinct slugs, a later lookup completed before an earlier one, and
\* all three were rendered
C1_Witness ==
  /\ page = "directory"
  /\ overtaken
  /\ IndexLen = 3
  /\ Cardinality(IndexedSlugs) = 3
  /\ Len(renderLog) = 1
  /\ Len(renderLog[1]) = 3

\* C2: a failing lookup touches nothing but itself: every slot written so far
\* holds the value its own lookup delivered, and the rendered list has exactly
\* one record per succeeded lookup and nothing for the failed ones.
C2_PartialFailure ==
  ListPage =>
    /\ DOMAIN Slots = {i \in DOMAIN requests : requests[i].status = "resolved"}
    /\ \A i \in DOMAIN Slots : Slots[i] = requests[i].value
    /\ \A k \in 1..Len(renderLog) : renderLog[k] = ResolvedRecords(IndexLen)

\* one lookup rejected, one delivered null, one succeeded: only that one is listed
C2_Witness ==
  /\ page = "directory"
  /\ IndexLen = 3
  /\ Len(renderLog) = 1
  /\ Len(renderLog[1]) = 1
  /\ \E i \in 1..3 : requests[i].status = "rejected"
  /\ \E i \in 1..3 : requests[i].status = "resolved" /\ ~Succeeded(i)

\* C3: the renderer is not invoked while a lookup is outstanding (the page
\* still shows the loading message and no card), and once the last lookup has
\* settled it has been invoked exactly once.
C3_CompletionOnce ==
  (ListPage /\ IndexLen > 0 /\ pc = "running") =>
    /\ SomePending =>
         /\ renderLog = <<>>
         /\ children = <<>>
         /\ display["loadingMessage"] = "block"
    /\ AllSettled => Len(renderLog) = 1

\* all but one lookup settled, the pass still waits
C3_Witness ==
  /\ page = "manage"
  /\ IndexLen = 3
  /\ Cardinality({i \in 1..3 : Settled(i)}) = 2
  /\ renderLog = <<>>

\* C4: when every issued lookup settles, a resolution pass eventually signals
\* completion, whatever the outcomes.
C4_Termination == (ListPage /\ IndexLen > 0) ~> (Len(renderLog) = 1)

\* a pass in which every lookup failed has completed, with the empty list
C4_Witness ==
  /\ page = "directory"
  /\ IndexLen = 3
  /\ Len(requests) = 3
  /\ \A i \in 1..3 : requests[i].status = "rejected"
  /\ renderLog = <<<<>>>>

\* C5: with an empty index both list pages show the empty message at once:
\* no lookup is issued, nothing is rendered and no error is shown or logged.
C5_EmptyIndex ==
  (ListPage /\ IndexLen = 0 /\ pc # "start") =>
    /\ requests = <<>>
    /\ renderLog = <<>>
    /\ display["emptyMessage"] = "block"
    /\ display["loadingMessage"] = "none"
    /\ display[IF page = "manage" THEN "employeeListContainer" ELSE "directoryGrid"] = "none"
    /\ display["errorContainer"] # "block"
    /\ errorMessage = <<>>
    /\ console = {}

C5_Witness == page = "directory" /\ IndexLen = 0 /\ pc = "running"

\* C6: opened without a person parameter, the profile page ends in the
\* 'no employee specified' error state, where nothing can happen any more,
\* and no record fetch was issued.
C6_MissingParameter ==
  (page = "profile" /\ query = <<>> /\ pc # "start") =>
    /\ pc = "done"
    /\ ~ENABLED Next
    /\ errorMessage = MsgNoEmployee
    /\ display["errorContainer"] = "block"
    /\ display["profileContainer"] = "none"
    /\ display["loadingMessage"] = "none"
    /\ requests = <<>>
    /\ profile = <<>>

C6_Witness == page = "profile" /\ query = <<>> /\ pc = "done"

\* C7: when the lookup of the requested slug has failed, the profile page is in
\* the terminal 'not found' state: the message carries the requested slug, the
\* profile container is hidden, and that lookup is the only one ever issued.
C7_NotFound ==
  (page = "profile" /\ Len(requests) > 0 /\ requests[1].status = "rejected") =>
    /\ pc = "done"
    /\ ~ENABLED Next
    /\ errorMessage = <<"Employee not found: ", query[1]>>
    /\ display["errorContainer"] = "block"
    /\ display["profileContainer"] = "none"
    /\ display["loadingMessage"] = "none"
    /\ profile = <<>>
    /\ Len(requests) = 1
    /\ requests[1].url = DataUrl(query[1])

\* the slug has no record while the index lists slugs whose records exist
C7_Witness ==
  /\ page = "profile"
  /\ pc = "done"
  /\ Len(requests) = 1
  /\ requests[1].status = "rejected"
  /\ Site(query[1]).file = "absent"
  /\ \E s \in IndexedSlugs : s # query[1] /\ Site(s).file = "json"

\* what the profile page shows: the visibility of its three regions, the
\* error text and the painted record
ProfileView == <<display["loadingMessage"], display["profileContainer"],
                 display["errorContainer"], errorMessage, profile>>

\* the 'not found' state for a slug
NotFoundView(slug) == <<"none", "none", "block", <<"Employee not found: ", slug>>, <<>>>>

\* C8 as stated: the state shown for a malformed record file differs from the
\* 'not found' state shown for a slug with no backing record.
C8_Original ==
  (page = "profile" /\ pc = "done" /\ ~Falsy(query)
     /\ Site(query[1]).file = "malformed") =>
    ProfileView # NotFoundView(query[1])

\* C8 amended: a slug with no backing record and a slug whose record file is
\* malformed both end in the same 'not found' state carrying the slug.
C8_SameNotFoundState ==
  (page = "profile" /\ pc = "done" /\ ~Falsy(query)
     /\ Site(query[1]).file \in {"absent", "malformed"}) =>
    ProfileView = NotFoundView(query[1])

C8_Witness ==
  /\ page = "profile"
  /\ pc = "done"
  /\ ~Falsy(query)
  /\ Site(query[1]).file = "malformed"
  /\ requests[1].status = "rejected"

\* C9: the list pages only ever fetch and show records of indexed folders,
\* while the profile page fetches the folder named by the query, indexed or
\* not, and paints the record that lookup delivers.
C9_IndexGatesListsOnly ==
  /\ ListPage =>
       /\ \A i \in DOMAIN requests : requests[i].slug \in IndexedSlugs
       /\ \A i \in DOMAIN children : children[i].firstName[1] \in IndexedSlugs
  /\ (page = "profile" /\ ~Falsy(query) /\ pc # "start") =>
       /\ Len(requests) = 1
       /\ requests[1].url = DataUrl(query[1])
       /\ Succeeded(1) =>
            /\ requests[1].value = Site(query[1]).value
            /\ profile = <<requests[1].value>>
            /\ display["profileContainer"] = "block"
            /\ display["errorContainer"] # "block"

\* a record outside a non-empty index is painted by the profile page
C9_Witness ==
  /\ page = "profile"
  /\ IndexLen > 0
  /\ ~Falsy(query)
  /\ query[1] \notin IndexedSlugs
  /\ profile # <<>>
  /\ profile[1].firstName = query

\* ---------------------------------------------------------------------
\* C10
\* ---------------------------------------------------------------------
\* the derivation as described: each part lower-cased and trimmed, white-space
\* runs inside a part turned into one hyphen, the parts joined by one hyphen
DescribedSlug(first, last) ==
  ReplaceSpaceRuns(Trim(ToLowerCase(first))) \o <<"-">> \o
  ReplaceSpaceRuns(Trim(ToLowerCase(last)))

\* C10: for names that are not blank,
\* generateSlug returns the lower-cased, per-part trimmed names joined by
\* a single hyphen with inner white-space runs as single hyphens; the result
\* has no upper-case letter and no white space; ("J", " o ") gives "j-o".
C10_SlugDerivation ==
  (page = "slug" /\ generatedSlug # <<>>
     /\ Trim(firstName) # <<>> /\ Trim(lastName) # <<>>) =>
    /\ generatedSlug[1] = DescribedSlug(firstName, lastName)
    /\ \A i \in 1..Len(generatedSlug[1]) : generatedSlug[1][i] \in {"j", "o", "-"}

\* C11: the slug normalization (lower-case, trim, white-space runs to one
\* hyphen) applied to a slug that generateSlug derived returns that slug
\* unchanged, for every pair of names.
C11_SlugIdempotent ==
  (page = "slug" /\ normalizedAgain # <<>>)
  => normalizedAgain[1] = generatedSlug[1]

\* names with upper case, inner and outer white space were derived and
\* normalized again
C11_Witness ==
  /\ page = "slug"
  /\ normalizedAgain # <<>>
  /\ firstName = <<" ", "J", " ">>
  /\ lastName = <<"o", " ", "J">>

\* the lines of a text whose line breaks are CRLF (String.prototype.split)
RECURSIVE LinesOf(_)
LinesOf(text) ==
  IF \A i \in 1..Len(text) : text[i] # CRLF THEN <<text>>
  ELSE LET k == CHOOSE i \in 1..Len(text) :
                  text[i] = CRLF /\ \A j \in 1..(i - 1) : text[j] # CRLF
       IN <<SubSeq(text, 1, k - 1)>> \o LinesOf(SubSeq(text, k + 1, Len(text)))

\* the numbers of the lines of a text that start with a property name
LinesWith(text, key) ==
  LET lines == LinesOf(text)
  IN {i \in DOMAIN lines : lines[i] # <<>> /\ lines[i][1] = key}

\* a record has a phone when its phone is neither null nor empty
HasPhone(e) == e.phone # <<>> /\ e.phone[1] # <<>>

\* C12: buildVcard emits no TEL line for a record without a phone; for a
\* record with a phone it emits exactly one TEL line, carrying the phone,
\* after the EMAIL line and before the URL line.
C12_TelLine ==
  (page = "vcard" /\ vcard # <<>>)
  => LET tel == LinesWith(vcard[1], "TEL:")
         email == LinesWith(vcard[1], "EMAIL:")
         url == LinesWith(vcard[1], "URL:")
     IN IF HasPhone(employee)
        THEN /\ email # {}
             /\ url # {}
             /\ \E i \in tel :
                  /\ tel = {i}
                  /\ LinesOf(vcard[1])[i] = <<"TEL:">> \o employee.phone[1]
                  /\ \A j \in email : j < i
                  /\ \A j \in url : i < j
        ELSE tel = {}

\* a contact card was built for a record with a phone
C12_Witness ==
  /\ page = "vcard"
  /\ vcard # <<>>
  /\ employee.phone = << <<"5", "5", "5">> >>

\* the lines C13 lists, in its order
DescribedLines(e) ==
  << <<"BEGIN:VCARD">>,
     <<"VERSION:", "3.0">>,
     <<"FN:">> \o e.firstName \o <<" ">> \o e.lastName,
     <<"N:">> \o e.lastName \o <<";">> \o e.firstName \o <<";;;">>,
     <<"TITLE:">> \o e.title,
     <<"ORG:", "Centerlink Technologies">>,
     <<"EMAIL:">> \o e.email >>
  \o (IF HasPhone(e) THEN << <<"TEL:">> \o e.phone[1] >> ELSE <<>>)
  \o << <<"URL:", FULL_BASE_URL, "/profile.html", "?", "person", "=">>
          \o encodeURIComponent(e.slug),
        <<"END:VCARD">> >>

\* a text made of lines that each end with CRLF
RECURSIVE TerminateEach(_)
TerminateEach(lines) ==
  IF lines = <<>> THEN <<>>
  ELSE lines[1] \o <<CRLF>> \o TerminateEach(Tail(lines))

\* C13: buildVcard produces exactly the lines BEGIN:VCARD, VERSION:3.0, FN,
\* N, TITLE, ORG (the same organization for every record), EMAIL, optional
\* TEL, URL, END:VCARD in this order, every line terminated by CRLF.
C13_Layout ==
  (page = "vcard" /\ vcard # <<>>)
  => vcard[1] = TerminateEach(DescribedLines(employee))

\* what does hold of the layout: the text splits at its CRLFs into exactly
\* the described lines, and its last line, END:VCARD, has no terminator
VcardLayoutUnterminated ==
  (page = "vcard" /\ vcard # <<>>)
  => /\ LinesOf(vcard[1]) = DescribedLines(employee)
     /\ vcard[1][Len(vcard[1])] = "END:VCARD"

\* the builds whose archive was generated
Fulfilled == {i \in DOMAIN builds : builds[i].status = "fulfilled"}

\* the entries of an archive that are files, and those that are folders
FileEntries(zip) == {i \in DOMAIN zip : ~zip[i].dir}
FolderEntries(zip) == {i \in DOMAIN zip : zip[i].dir}

\* the content of the file entry at a path
ContentAt(zip, path) ==
  zip[CHOOSE i \in FileEntries(zip) : zip[i].path = path].content

\* JSON.parse of a serialized object: member name -> value
JSONparse(text) ==
  [k \in {text[i].key : i \in DOMAIN text} |->
     text[CHOOSE i \in DOMAIN text : text[i].key = k].value]

\* the paths C14 lists for a build: the three fixed files and one per media
\* filename of the record, all directly in the folder named by the slug
DescribedPaths(b) ==
  {b.slug \o <<"/", "data.json">>,
   b.slug \o <<"/", "contact.vcf">>,
   b.slug \o <<"/", "headshot">> \o getFileExtension(b.headshotFile.name)}
  \cup {b.slug \o <<"/">> \o b.employeeData.media[k] :
          k \in DOMAIN b.employeeData.media}

\* C14: the archive of every successful build has exactly one top-level
\* folder, named by the slug, whose entries are exactly data.json,
\* contact.vcf, the headshot under its normalized name and one entry per
\* media filename of the record, 3 + |media| entries in all; data.json parses
\* back to the record and contact.vcf is the record's contact card.
C14_ArchiveRoundTrip ==
  \A i \in Fulfilled :
    LET b == builds[i]
        zip == b.zip
    IN /\ \A f \in FolderEntries(zip) : zip[f].path = b.slug \o <<"/">>
       /\ Cardinality(FolderEntries(zip)) = 1
       /\ {zip[f].path : f \in FileEntries(zip)} = DescribedPaths(b)
       /\ Cardinality(FileEntries(zip)) = 3 + Len(b.employeeData.media)
       /\ Cardinality(DescribedPaths(b)) = 3 + Len(b.employeeData.media)
       /\ \A k \in DOMAIN EmployeeKeys :
            JSONparse(ContentAt(zip, b.slug \o <<"/", "data.json">>))[EmployeeKeys[k]]
              = b.employeeData[EmployeeKeys[k]]
       /\ ContentAt(zip, b.slug \o <<"/", "contact.vcf">>)
            = buildVcard(b.employeeData)

\* an archive was generated for a record with two media files
C14_Witness ==
  \E i \in Fulfilled : Len(builds[i].employeeData.media) = 2

\* an image whose address is an inline-encoded payload
IsInline(img) == img.src # <<>> /\ img.src[1] = "data:"

\* the positions of the inline images among the first n nodes of a markup,
\* in document order
RECURSIVE InlinePositions(_, _)
InlinePositions(html, n) ==
  IF n = 0 THEN <<>>
  ELSE InlinePositions(html, n - 1)
         \o (IF IsInline(html[n]) THEN <<n>> ELSE <<>>)

InvalidForm ==
  \/ Trim(firstName) = <<>>
  \/ Trim(lastName) = <<>>
  \/ \E id \in {"email", "title", "department"} : Trim(inputs[id]) = <<>>
  \/ headshotFiles = <<>>

\* C16: a submission of a form with an empty required text or without a
\* headshot shows the inline error, starts no build (the archive builder is
\* not invoked) and leaves the preview hidden, with no download in it.
C16_Validation ==
  [][(handleFormSubmit /\ InvalidForm)
     => /\ display'["errorContainer"] = "block"
        /\ errorMessage' \in {MsgZipLibrary, MsgRequired, MsgHeadshot}
        /\ builds' = builds
        /\ previewPanel' = previewPanel
        /\ display'["preview"] = "none"]_vars

\* a filled-in form without a headshot was submitted
C16_Witness ==
  /\ page = "form"
  /\ InvalidForm
  /\ display["errorContainer"] = "block"
  /\ errorMessage = MsgHeadshot

\* C17: when the packer rejects a build, that build ends in the error state
\* showing the cause, 'Error creating ZIP: ' + cause, and stays there; the
\* step shows no preview and offers no download.
C17_PackagingFailure ==
  [][\A i \in DOMAIN builds :
       /\ (builds[i].status = "pending" /\ builds'[i].status = "rejected")
          => /\ builds'[i].reason # <<>>
             /\ errorMessage' = <<"Error creating ZIP: ", builds'[i].reason[1]>>
             /\ display'["errorContainer"] = "block"
             /\ previewPanel' = previewPanel
             /\ display'["preview"] = display["preview"]
       /\ builds[i].status = "rejected" => builds'[i] = builds[i]]_vars

\* the packer rejected the only build of a page: no preview, no download
C17_Witness ==
  /\ Len(builds) = 1
  /\ builds[1].status = "rejected"
  /\ display["preview"] = "none"
  /\ previewPanel = <<>>

\* an optional member that is null or a non-empty text
NullOrNonEmpty(opt) == opt = <<>> \/ (Len(opt) = 1 /\ opt[1] # <<>>)

\* C20: in every record a form submission builds, and in its serialized
\* data.json, phone and linkedin are each null or a non-empty text, never
\* the empty string.
C20_OptionalFields ==
  \A i \in DOMAIN builds :
    /\ NullOrNonEmpty(builds[i].employeeData.phone)
    /\ NullOrNonEmpty(builds[i].employeeData.linkedin)
    /\ \A k \in DOMAIN builds[i].zip :
         builds[i].zip[k].path = builds[i].slug \o <<"/", "data.json">>
         => /\ NullOrNonEmpty(JSONparse(builds[i].zip[k].content)["phone"])
            /\ NullOrNonEmpty(JSONparse(builds[i].zip[k].content)["linkedin"])

\* a record was built from an empty phone and a white-space only linkedin:
\* both are null
C20_Witness ==
  /\ builds # <<>>
  /\ inputs["phone"] = <<>>
  /\ inputs["linkedin"] = <<" ">>
  /\ builds[1].employeeData.phone = <<>>
  /\ builds[1].employeeData.linkedin = <<>>

\* the text a percent-encoded value stands for
RECURSIVE PercentDecode(_)
PercentDecode(value) ==
  IF value = <<>> THEN <<>>
  ELSE <<(CASE Head(value) = "%20" -> " "
            [] Head(value) = "%26" -> "&"
            [] OTHER -> Head(value))>> \o PercentDecode(Tail(value))

\* an address made of the fixed base address, a path, and exactly one query
\* parameter, person, whose value is the percent-encoded slug
IsProfileAddress(url, path, slug) ==
  /\ Len(url) >= 5
  /\ SubSeq(url, 1, 5) = <<FULL_BASE_URL, path, "?", "person", "=">>
  /\ \A k \in 6..Len(url) : url[k] \notin {" ", "&", "=", "?", "#"}
  /\ PercentDecode(SubSeq(url, 6, Len(url))) = slug

\* the URL property of a contact card
VcardUrl(text) ==
  LET lines == LinesOf(text)
  IN Tail(lines[CHOOSE i \in DOMAIN lines :
                   lines[i] # <<>> /\ lines[i][1] = "URL:"])

\* every profile address the page carries, paired with the slug of the record
\* it was made for: card links, 'View Profile' links, QR code payloads of
\* both sizes, the form's profile URL, contact card and preview
ProfileAddresses ==
  IF page \in {"directory", "manage"}
  THEN {<<links[i].href, links[i].slug>> : i \in DOMAIN links}
  ELSE IF page = "profile"
  THEN {<<links[i].text, links[i].slug>> : i \in DOMAIN links}
  ELSE IF page = "form"
  THEN {<<builds[i].profileUrl, builds[i].employeeData.slug>> :
          i \in DOMAIN builds}
       \cup {<<VcardUrl(builds[i].vcard), builds[i].employeeData.slug>> :
               i \in DOMAIN builds}
       \cup {<<previewPanel[i].profileUrl, previewPanel[i].successMessage>> :
               i \in DOMAIN previewPanel}
       \cup {<<VcardUrl(previewPanel[i].vcardPreview),
                previewPanel[i].successMessage>> : i \in DOMAIN previewPanel}
  ELSE {}

\* C18 as stated: every profile address a page carries for a record is the
\* fixed base address + the path /profile + the one parameter person with the
\* percent-encoded slug.
C18_Original ==
  \A a \in ProfileAddresses : IsProfileAddress(a[1], "/profile", a[2])

\* C18, amended: the directory card link, the management 'View Profile' link,
\* the contact card URL, the QR payload of both sizes and the form preview
\* URL of a record are all the fixed base address + the path /profile.html +
\* the one parameter person with the percent-encoded slug, and the profile
\* page carries that payload in exactly two sizes.
C18_ProfileAddress ==
  /\ \A a \in ProfileAddresses : IsProfileAddress(a[1], "/profile.html", a[2])
  /\ (page = "profile" /\ links # <<>>)
     => /\ Len(links) = 2
        /\ links[1].width # links[2].width
        /\ links[1].text = links[2].text

\* the form previews the address of a slug that needs percent-encoding
C18_Witness ==
  /\ page = "form"
  /\ previewPanel # <<>>
  /\ \E k \in DOMAIN previewPanel[1].profileUrl :
       previewPanel[1].profileUrl[k] = "%26"

\* C19: no failure of a form submission, of a directory or management pass
\* or of a profile load escapes as an uncaught exception or an unhandled
\* rejection.
C19_NoUncaughtFaults == uncaught = <<>>

\* lookup i settles in this step
SettlesNow(i) == Pending(i) /\ requests'[i].status # "pending"

\* the slots of the result array that this step writes
SlotsWritten ==
  {k \in (DOMAIN Slots) \cup (DOMAIN Slots') :
     \/ k \notin DOMAIN Slots
     \/ k \notin DOMAIN Slots'
     \/ Slots[k] # Slots'[k]}

\* the resolver's completion counters are left as they are
CountersUnchanged == loaded' = loaded /\ failed' = failed /\ mloaded' = mloaded

\* exactly one completion counter of the running resolver goes up by one
OneCounterIncremented ==
  IF page = "manage"
  THEN mloaded' = mloaded + 1 /\ loaded' = loaded /\ failed' = failed
  ELSE /\ mloaded' = mloaded
       /\ \/ loaded' = loaded + 1 /\ failed' = failed
          \/ loaded' = loaded /\ failed' = failed + 1

\* C21 as stated: the step in which a lookup of a resolution pass settles
\* writes, of the resolver's mutable state, only that lookup's own slot of
\* the result array; nothing is written by more than one lookup.
C21_Original ==
  [][\A i \in 1..IndexLen :
       (ListPage /\ SettlesNow(i))
         => (SlotsWritten \subseteq {i} /\ CountersUnchanged)]_vars

\* C21, amended: the step in which a lookup settles writes no slot of the
\* result array but its own (and none when it failed), and it adds one to
\* one completion counter that all lookups of the pass share; as each
\* handler runs to its end before the next starts, the counters always add
\* up to the number of settled lookups.
C21_OwnSlotSharedCounter ==
  /\ [][\A i \in 1..IndexLen :
          (ListPage /\ SettlesNow(i))
            => /\ SlotsWritten \subseteq {i}
               /\ (requests'[i].status = "rejected") => SlotsWritten = {}
               /\ OneCounterIncremented]_vars
  /\ [](ListPage =>
          loaded + failed + mloaded
            = Cardinality({i \in 1..IndexLen : Settled(i)}))

\* a pass in which three lookups settled: two wrote their slots, one failed,
\* and one of them overtook an earlier lookup
C21_Witness ==
  /\ page = "directory"
  /\ loaded = 2
  /\ failed = 1
  /\ overtaken
  /\ DOMAIN cards = {1, 3}

\* the lookups issued so far for slug s
LookupsOf(s) == {i \in DOMAIN requests : requests[i].slug = s}

\* the slugs this page load looks up
SlugsToLookUp ==
  IF ListPage THEN IndexedSlugs
  ELSE IF page = "profile" /\ ~Falsy(query) THEN {query[1]}
  ELSE {}

\* the identifier sequence names no slug twice
IndexHasNoRepeat ==
  \A i, j \in 1..IndexLen : EMPLOYEE_SLUGS[i] = EMPLOYEE_SLUGS[j] => i = j

\* C22: a resolution pass issues exactly one lookup per entry of the
\* identifier sequence, in its order, so each slug of an index without
\* repeats is looked up exactly once, and a profile load issues exactly one
\* lookup for the requested slug; after that no lookup is ever issued, and a
\* lookup that has settled, failed or not, never becomes outstanding again.
C22_NoRetry ==
  /\ []((ListPage /\ pc # "start")
          => /\ Len(requests) = IndexLen
             /\ \A i \in 1..IndexLen : requests[i].slug = EMPLOYEE_SLUGS[i]
             /\ IndexHasNoRepeat
                  => \A s \in SlugsToLookUp : Cardinality(LookupsOf(s)) = 1)
  /\ []((page = "profile" /\ pc # "start")
          => IF Falsy(query) THEN requests = <<>>
             ELSE \A s \in SlugsToLookUp : Cardinality(LookupsOf(s)) = 1)
  /\ [][(page \in {"directory", "manage", "profile"} /\ pc # "start")
          => /\ Len(requests') = Len(requests)
             /\ \A i \in DOMAIN requests :
                  /\ requests'[i].slug = requests[i].slug
                  /\ Settled(i) => requests'[i].status # "pending"]_vars

\* a pass has ended in which two of three lookups failed: three lookups
\* were issued in all
C22_Witness ==
  /\ page = "directory"
  /\ EMPLOYEE_SLUGS = <<"gone", "ann", "bad">>
  /\ AllSettled
  /\ failed = 2
  /\ Len(requests) = 3

\* the build's archive holds, under the paths of the build's own slug
\* folder, the build's own record, contact card, headshot file and media
\* files, and nothing else
OwnArchive(b) ==
  /\ \A k \in DOMAIN b.zip :
       /\ Len(b.zip[k].path) > Len(b.slug)
       /\ SubSeq(b.zip[k].path, 1, Len(b.slug) + 1) = b.slug \o <<"/">>
  /\ {b.zip[k].path : k \in FileEntries(b.zip)} = DescribedPaths(b)
  /\ JSONparse(ContentAt(b.zip, b.slug \o <<"/", "data.json">>))
       = [k \in {EmployeeKeys[n] : n \in DOMAIN EmployeeKeys} |->
            b.employeeData[k]]
  /\ ContentAt(b.zip, b.slug \o <<"/", "contact.vcf">>) = b.vcard
  /\ ContentAt(b.zip, b.slug \o <<"/">> \o b.employeeData.headshot)
       = b.headshotFile
  /\ \A m \in DOMAIN b.media :
       ContentAt(b.zip, b.slug \o <<"/">> \o b.media[m].filename)
         = b.media[m].file

\* the build's record, headshot and media are those of the form as it was
\* when the build was submitted
OwnSubmission(b) ==
  /\ b.slug = generateSlug(Trim(b.form.firstName), Trim(b.form.lastName))
  /\ b.employeeData.slug = b.slug
  /\ b.employeeData.firstName = Trim(b.form.firstName)
  /\ b.employeeData.lastName = Trim(b.form.lastName)
  /\ \A id \in {"email", "title", "department"} :
       b.employeeData[id] = Trim(b.form.inputs[id])
  /\ \A id \in {"phone", "linkedin"} :
       b.employeeData[id] = OrNull(Trim(b.form.inputs[id]))
  /\ b.headshotFile.name = b.form.headshotFiles[1]
  /\ b.bioHtml = b.form.bioEditor
  /\ b.media = MediaAfter(extractMediaFromBio(b.form.bioEditor),
                          Len(extractMediaFromBio(b.form.bioEditor)))
  /\ b.vcard = buildVcard(b.employeeData)

\* C23: whatever builds overlap and however their steps interleave, each
\* build's archive contains only the slug folder, record, contact card and
\* files of its own submission, and a step of one build (its submission,
\* its success, its failure) or an edit of the form changes nothing of
\* another build but, at most, that build's own outcome.
C23_IndependentBuilds ==
  /\ [](\A i \in DOMAIN builds :
          OwnArchive(builds[i]) /\ OwnSubmission(builds[i]))
  /\ [][/\ \A i \in DOMAIN builds :
             /\ i \in DOMAIN builds'
             /\ [builds'[i] EXCEPT !.status = "pending", !.reason = <<>>]
                  = [builds[i] EXCEPT !.status = "pending", !.reason = <<>>]
        /\ Cardinality({i \in DOMAIN builds : builds'[i] # builds[i]}) <= 1]_vars

\* two builds of different submissions overlapped and both succeeded, the
\* one submitted first finishing last
C23_Witness ==
  /\ Len(builds) = 2
  /\ builds[1].slug # builds[2].slug
  /\ builds[1].status = "fulfilled"
  /\ builds[2].status = "fulfilled"
  /\ previewPanel # <<>>
  /\ previewPanel[1].successMessage = builds[1].slug

\* an image reference that is an absolute address on some host
IsExternalUrl(src) ==
  \/ StartsWith(src, <<"h", "t", "t", "p", ":", "/", "/">>)
  \/ StartsWith(src, <<"h", "t", "t", "p", "s", ":", "/", "/">>)

\* C24: in the painted profile every image of the bio whose reference is
\* not an external URL, file names beginning with http included, refers to
\* base/<slug>/<filename>, and every external reference is as stored.
C24_BioImageRewriting ==
  (page = "profile" /\ profile # <<>>)
    => /\ Len(rendered[1].bio) = Len(profile[1].bioHtml)
       /\ \A n \in DOMAIN profile[1].bioHtml :
            LET src == profile[1].bioHtml[n].src
            IN rendered[1].bio[n].src =
                 IF IsExternalUrl(src) THEN src
                 ELSE FolderAddress(profile[1].slug, src)

\* C25: fed the same index, the same lookup outcomes and the same
\* completion order, the directory resolver (two counters) and the
\* management resolver (one counter) signal completion in the same step, at
\* most once each, and hand the same ordered list to their renderers; until
\* then neither has signalled, and their result slots agree throughout.
C25_EquivalentResolvers ==
  /\ Len(renderLog) \in {0, 2}
  /\ loaded + failed = mloaded
  /\ cards = employees
  /\ Len(renderLog) = 2
       => /\ renderLog[1].by = "renderDirectoryCards"
          /\ renderLog[2].by = "renderManageList"
          /\ renderLog[1].list = renderLog[2].list
          /\ AllSettled
  /\ (pc = "running" /\ IndexLen > 0 /\ AllSettled) => Len(renderLog) = 2

\* both resolvers have handed over the list of a pass in which a lookup
\* failed, one succeeded and the completions came out of order
C25_Witness ==
  /\ page = "both"
  /\ Len(renderLog) = 2
  /\ failed > 0
  /\ Len(renderLog[1].list) > 0
  /\ overtaken

\* C26: on the form page the error banner and the success preview are
\* never both visible.
C26_ErrorXorPreview ==
  page = "form"
    => ~(display["errorContainer"] = "block" /\ display["preview"] = "block")

\* C27: activating the 'new employee' control of the success preview
\* leaves the form visible and empty, the preview hidden and the error
\* banner hidden.
C27_NewEmployeeResets ==
  [][newEmployeeBtnClick
     => /\ display'["employeeForm"] # "none"
        /\ display'["preview"] = "none"
        /\ display'["errorContainer"] = "none"
        /\ firstName' = <<>> /\ lastName' = <<>>
        /\ \A id \in InputIds : inputs'[id] = <<>>
        /\ headshotFiles' = <<>>
        /\ bioEditor' = <<>>]_vars

\* the slug requested in the query parameter, as a text
RequestedSlug == <<query[1]>>

\* C28: in the painted profile the headshot address, every rewritten bio
\* image, every media gallery item, both scannable-code payloads and the
\* downloaded contact card's name and URL are built from the slug requested
\* in the query parameter, whatever slug member the record has.
C28_RequestedSlugAddresses ==
  (page = "profile" /\ profile # <<>>)
    => /\ rendered[1].headshot
            = FolderAddress(RequestedSlug, profile[1].headshot)
       /\ \A n \in DOMAIN rendered[1].bio :
            rendered[1].bio[n].src # profile[1].bioHtml[n].src
              => rendered[1].bio[n].src
                   = FolderAddress(RequestedSlug, profile[1].bioHtml[n].src)
       /\ \A n \in DOMAIN rendered[1].gallery :
            rendered[1].gallery[n]
              = FolderAddress(RequestedSlug, profile[1].media[n])
       /\ \A k \in DOMAIN links :
            links[k].text = buildProfileUrl(RequestedSlug)
       /\ \A k \in DOMAIN rendered[1].downloads :
            /\ rendered[1].downloads[k].filename = RequestedSlug \o <<".vcf">>
            /\ VcardUrl(rendered[1].downloads[k].text)
                 = buildProfileUrl(RequestedSlug)

\* the regions of the directory page that are visible
DirectoryRegions == {"loadingMessage", "directoryGrid", "emptyMessage"}

VisibleRegions == {r \in DirectoryRegions : display[r] # "none"}

\* C29: once loadDirectory has run, exactly one of the loading message, the
\* card grid and the empty message is visible: the loading message while a
\* lookup is outstanding, afterwards the grid if a record resolved and the
\* empty message if none did (empty index, or every lookup failed); and
\* once the grid or the empty message is shown the view never changes.
C29_DirectoryViewState ==
  /\ []((page = "directory" /\ pc # "start")
          => /\ Cardinality(VisibleRegions) = 1
             /\ VisibleRegions =
                  IF SomePending THEN {"loadingMessage"}
                  ELSE IF \E i \in 1..IndexLen : Succeeded(i)
                  THEN {"directoryGrid"}
                  ELSE {"emptyMessage"})
  /\ [][(page = "directory" /\ pc # "start"
           /\ VisibleRegions \in {{"directoryGrid"}, {"emptyMessage"}})
          => display' = display]_vars

\* every lookup of a pass failed: the empty message is what is shown
C29_Witness ==
  /\ page = "directory"
  /\ IndexLen = 2
  /\ failed = 2
  /\ VisibleRegions = {"emptyMessage"}

\* everything the preview panel shows and delivers is of build b
PreviewOf(b) ==
  /\ previewPanel[1].profileUrl = b.profileUrl
  /\ previewPanel[1].profileUrl = buildProfileUrl(b.slug)
  /\ previewPanel[1].vcardPreview = b.vcard
  /\ {previewPanel[1].zipContents[k] : k \in DOMAIN previewPanel[1].zipContents}
       = {b.zip[k].path : k \in FileEntries(b.zip)}
  /\ previewPanel[1].download.blob = b.zip
  /\ previewPanel[1].download.filename = b.slug \o <<"-employee-card.zip">>

\* C30: whenever the success preview is visible, the profile URL, the
\* contact card and the archive entries it displays and the archive and
\* file name <slug>-employee-card.zip its download control delivers are
\* all those of one successful submission, however overlapping submissions
\* interleave.
C30_PreviewConsistency ==
  (page = "form" /\ display["preview"] = "block")
    => /\ Len(previewPanel) = 1
       /\ \E i \in Fulfilled : PreviewOf(builds[i])

\* two different submissions overlapped and both succeeded; the preview is
\* that of the second
C30_Witness ==
  /\ Len(builds) = 2
  /\ builds[1].slug # builds[2].slug
  /\ Fulfilled = {1, 2}
  /\ display["preview"] = "block"
  /\ previewPanel[1].download.blob = builds[2].zip

====
